---- MODULE Spec2Model ----
(***************************************************************************)
(* Model of the PJE download automation (package pje_automacao).           *)
(*                                                                         *)
(* Five state machines share this module:                                  *)
(*   Spec      one batch of PJEAutomacao.processar_tarefa: the submission  *)
(*             loop (DownloadService.solicitar_download), the pickup-area  *)
(*             poller (DownloadService.aguardar_downloads) and the fetch   *)
(*             loop (DownloadService.baixar_arquivo); SpecJusta is Spec    *)
(*             with the poller going on;                                   *)
(*   SpecAuth  AuthService.login / limpar_sessao over the SessionManager   *)
(*             files, with the clock and the portal as environment;        *)
(*   SpecEtiqueta  one tag batch of the browser client: the per-process    *)
(*             loop of src/downloadProcessByTag.py and the download-area   *)
(*             pass of PjeConsultaAutomator (src/utils/pje_automation.py); *)
(*   SpecPerfil  ProfileService, TaskService and DownloadService over one  *)
(*             AuthService: the selection of a profile by name and the     *)
(*             requests made under the active session;                     *)
(*   SpecProntos  the poller of the endpoint script,                       *)
(*             aguardar_downloads_prontos, and the fetch loop that follows *)
(*             it (src/downloadProcessTaskEndpoint.py).                    *)
(* Time in the batch is counted in units of the poll interval (15 s); time *)
(* in the session store is counted in units of 4 hours; time in the        *)
(* endpoint script's poller is counted in units of 5 s.                    *)
(***************************************************************************)
EXTENDS Integers, Sequences, FiniteSets, TLC

(***************************************************************************)
(* Bounds of the model                                                     *)
(***************************************************************************)
\* longest list of case records returned by listar_todos_processos
MaxProcs == 2
\* longest pickup-area listing returned by one listar_disponiveis call
MaxListing == 2
\* tempo_espera handed to processar_tarefa, in poll intervals
TempoEspera == 2
\* longest time one pickup-area listing request takes, in poll intervals
MaxLatencia == 1

\* most downloads the endpoint script asks for in one task, and the longest
\* listing its poller gets
MaxProntos == 2
\* largest tempo_espera of the endpoint script, in units of five seconds
MaxTempoBase == 2

\* intervalo of aguardar_downloads (15 s): the unit of batch time
Intervalo == 1
\* the initial sleep of aguardar_downloads (15 s), in poll intervals
EsperaInicial == 1

\* intervalo_verificacao of aguardar_downloads_prontos (10 s), in units of
\* five seconds
IntervaloVerificacao == 2
\* the time without new downloads after which aguardar_downloads_prontos gives
\* up (60 s), in units of five seconds
JanelaSemNovos == 12
\* the longest initial sleep of aguardar_downloads_prontos (15 s), in units of
\* five seconds
EsperaInicialMax == 3

(***************************************************************************)
(* Values                                                                  *)
(***************************************************************************)
\* numero_processo of the case records a task may list
Procs == {"A", "B"}
\* a case number that belongs to another batch of the same user
Alheio == "X"
\* the task of the three-record scenario lists one more case record
Terceiro == "C"
CenarioA == <<"A", "B", Terceiro>>
Numeros == Procs \cup {Terceiro, Alheio}

Range(s) == {s[i] : i \in DOMAIN s}
SeqsUpTo(S, n) == UNION {[1..k -> S] : k \in 0..n}

\* the lists of case records a task may hold
ListasDeProcessos == SeqsUpTo(Procs, MaxProcs) \cup {CenarioA}

\* DownloadDisponivel snapshots the pickup area may list: hash_download,
\* situacao and the numeroProcesso of each entry of itens ("" when the key is
\* missing). Two snapshots are equal when every field is (the dataclass
\* __eq__ behind "download not in downloads"); the artifact of hash 1 is
\* listed in one situacao or the other.
Catalogo ==
    { [hash |-> 1, situacao |-> "S1", itens |-> <<"A", "", "A", "X">>],
      [hash |-> 1, situacao |-> "S2", itens |-> <<"A", "", "A", "X">>],
      [hash |-> 2, situacao |-> "S1", itens |-> <<"A", "B">>] }

\* the pickup items the area lists for the three-record task: one archive
\* per deferred case record, and one archive left by another batch
ItemDe(numero) ==
    [hash |-> IF numero = "B" THEN 3 ELSE 4, situacao |-> "S1", itens |-> <<numero>>]
CatalogoA ==
    { ItemDe("B"), ItemDe(Terceiro),
      [hash |-> 5, situacao |-> "S1", itens |-> <<Alheio>>] }

\* what the pickup area may list while the batch of processos waits
CatalogoPara(processos) == IF processos = CenarioA THEN CatalogoA ELSE Catalogo

\* DownloadDisponivel.get_numeros_processos: the distinct non-empty numbers
get_numeros_processos(download) ==
    {download.itens[i] : i \in DOMAIN download.itens} \ {""}

\* substrings solicitar_download looks for in the lower-cased reply
Frases == {"esta sendo gerado", "aguarde", "sera disponibilizado", "area de download"}

(***************************************************************************)
(* DownloadService.solicitar_download                                      *)
(***************************************************************************)
\* What the portal does during one solicitar_download call:
\*   chave      gerar_chave_acesso returns a non-empty key
\*   pagina     abrir_processo returns the page
\*   viewstate  the page carries javax.faces.ViewState
\*   botao      the page carries the download control
\*   post       "ok" (HTTP 200), "http" (another status), "excecao" (raises)
\*   texto      the fragments present in the reply, url: an S3 location is
\*              embedded, transfer: the direct transfer succeeds
\* The reply fields are only read after a 200 reply, so they are kept at a
\* fixed value in every other environment.
Ambientes ==
    { [chave |-> c, pagina |-> p, viewstate |-> v, botao |-> b, post |-> r,
       texto |-> {}, url |-> FALSE, transfer |-> FALSE] :
         c \in BOOLEAN, p \in BOOLEAN, v \in BOOLEAN, b \in BOOLEAN,
         r \in {"ok", "http", "excecao"} }
    \cup
    { [chave |-> TRUE, pagina |-> TRUE, viewstate |-> TRUE, botao |-> TRUE,
       post |-> "ok", texto |-> t, url |-> u, transfer |-> x] :
         t \in SUBSET Frases, u \in BOOLEAN, x \in BOOLEAN }

\* the replies the portal gives to the three-record task: a direct download
\* that is transferred, a deferred one, or a page with neither announcement
AmbientesA ==
    { a \in Ambientes :
        /\ a.chave /\ a.pagina /\ a.viewstate /\ a.botao /\ a.post = "ok"
        /\ \/ a.texto = {"esta sendo gerado", "aguarde"} /\ a.url /\ a.transfer
           \/ a.texto = {"sera disponibilizado"} /\ ~a.url /\ ~a.transfer
           \/ a.texto = {} /\ ~a.url /\ ~a.transfer }

\* what the portal may do during one solicitar_download call of the batch
AmbientesPara(processos) == IF processos = CenarioA THEN AmbientesA ELSE Ambientes

\* DiagnosticoDownload appended by _adicionar_diagnostico (the message, the
\* timestamp and the details are left out)
Diag(numero_processo, etapa, sucesso) ==
    [numero_processo |-> numero_processo, etapa |-> etapa, sucesso |-> sucesso]

\* download.py:287
download_direto(texto) == "esta sendo gerado" \in texto /\ "aguarde" \in texto
\* a variant that wants both deferred-availability fragments
area_download_AmbasAsFrases(texto) ==
    "sera disponibilizado" \in texto /\ "area de download" \in texto
\* download.py:288
area_download(texto) == "sera disponibilizado" \in texto \/ "area de download" \in texto

\* The (sucesso, detalhes) pair returned, the entries appended to
\* self.diagnosticos and whether numero_processo joined downloads_solicitados
Retorno(sucesso, tipo_download, arquivo, diags, solicitado) ==
    [sucesso |-> sucesso, tipo_download |-> tipo_download, arquivo |-> arquivo,
     diags |-> diags, solicitado |-> solicitado]

\* a variant that reports a failure when the direct phrase is there and no
\* file came out of it
ClassificarResposta_DiretoOuFalha(numero, amb, diretorio, antes) ==
    LET arquivo == download_direto(amb.texto) /\ amb.url /\ diretorio /\ amb.transfer
    IN  IF arquivo
        THEN Retorno(TRUE, "direto", TRUE,
                     Append(antes, Diag(numero, "solicitar", TRUE)), TRUE)
        ELSE IF area_download(amb.texto) /\ ~download_direto(amb.texto)
        THEN Retorno(TRUE, "area_download", FALSE,
                     Append(antes, Diag(numero, "solicitar", TRUE)), TRUE)
        ELSE Retorno(FALSE, "nenhum", FALSE,
                     Append(antes, Diag(numero, "solicitar", FALSE)), FALSE)

\* the part of solicitar_download inside try, after a 200 reply (lines 284-318)
ClassificarResposta(numero, amb, diretorio, antes) ==
    LET arquivo == download_direto(amb.texto) /\ amb.url /\ diretorio /\ amb.transfer
    IN  IF arquivo
        THEN Retorno(TRUE, "direto", TRUE,
                     Append(antes, Diag(numero, "solicitar", TRUE)), TRUE)
        ELSE IF area_download(amb.texto) \/ download_direto(amb.texto)
        THEN Retorno(TRUE, "area_download", FALSE,
                     Append(antes, Diag(numero, "solicitar", TRUE)), TRUE)
        ELSE Retorno(FALSE, "nenhum", FALSE,
                     Append(antes, Diag(numero, "solicitar", FALSE)), FALSE)

\* a variant that returns on a failed post without recording the stage
EnviarFormulario_SemDiagnostico(numero, amb, diretorio, antes) ==
    IF amb.post # "ok"
    THEN Retorno(FALSE, "nenhum", FALSE, antes, FALSE)
    ELSE ClassificarResposta(numero, amb, diretorio, antes)

\* the form post and its handling (lines 263-325)
EnviarFormulario(numero, amb, diretorio, antes) ==
    IF amb.post = "excecao"
    THEN Retorno(FALSE, "nenhum", FALSE,
                 Append(antes, Diag(numero, "solicitar", FALSE)), FALSE)
    ELSE IF amb.post # "ok"
    THEN Retorno(FALSE, "nenhum", FALSE,
                 Append(antes, Diag(numero, "solicitar", FALSE)), FALSE)
    ELSE ClassificarResposta(numero, amb, diretorio, antes)

solicitar_download(numero, amb, diretorio) ==
    LET d1 == <<Diag(numero, "chave_acesso", TRUE)>>
        d2 == Append(d1, Diag(numero, "abrir_processo", TRUE))
        d3 == Append(d2, Diag(numero, "botao", TRUE))
    IN  IF ~amb.chave
        THEN Retorno(FALSE, "nenhum", FALSE,
                     <<Diag(numero, "chave_acesso", FALSE)>>, FALSE)
        ELSE IF ~amb.pagina
        THEN Retorno(FALSE, "nenhum", FALSE,
                     Append(d1, Diag(numero, "abrir_processo", FALSE)), FALSE)
        ELSE IF ~amb.viewstate
        THEN Retorno(FALSE, "nenhum", FALSE,
                     Append(d2, Diag(numero, "viewstate", FALSE)), FALSE)
        ELSE IF ~amb.botao
        THEN Retorno(FALSE, "nenhum", FALSE,
                     Append(d2, Diag(numero, "botao", FALSE)), FALSE)
        ELSE EnviarFormulario(numero, amb, diretorio, d3)

\* download.py:188-294: the requests solicitar_download sends and the waits
\* between them, in order: the access key, the case page, the form post and,
\* when the reply announces a direct download with a location in it and a
\* directory is given, the transfer of the file
pedidos_de_solicitar(amb, diretorio) ==
    IF ~amb.chave THEN <<"chave_acesso">>
    ELSE IF ~amb.pagina \/ ~amb.viewstate \/ ~amb.botao
    THEN <<"chave_acesso", "delay", "abrir_processo">>
    ELSE IF amb.post = "ok" /\ download_direto(amb.texto) /\ amb.url /\ diretorio
    THEN <<"chave_acesso", "delay", "abrir_processo", "delay", "solicitar",
           "transferencia">>
    ELSE <<"chave_acesso", "delay", "abrir_processo", "delay", "solicitar">>

(***************************************************************************)
(* The matching loop of DownloadService.aguardar_downloads                 *)
(***************************************************************************)
\* a variant of the claiming test that does not look at encontrados
DeveReivindicar_SemTrava(proc, processos, encontrados) ==
    proc \in Range(processos)

\* download.py:424, the test that claims proc for the download at hand
DeveReivindicar(proc, processos, encontrados) ==
    proc \in Range(processos) /\ proc \notin encontrados

\* a variant of the scheduling test that does not look at downloads
DeveAgendar_Sempre(download, downloads) == TRUE

\* download.py:426, the test that schedules the download for fetch
DeveAgendar(download, downloads) == download \notin Range(downloads)

\* Matching state: encontrados and downloads are the locals of
\* aguardar_downloads; reivindicado[p] is the history of line 425: the hashes
\* of the downloads in whose iteration p was added to encontrados.
Casado(encontrados, downloads, reivindicado) ==
    [encontrados |-> encontrados, downloads |-> downloads, reivindicado |-> reivindicado]

\* a variant of the inner loop that leaves it after the first claim
CasarProcs_UmPorItem(st, download, nums, processos) ==
    LET cand == {x \in nums : x \in Range(processos) /\ x \notin st.encontrados}
    IN  IF cand = {} THEN st
        ELSE LET proc == CHOOSE x \in cand : TRUE
             IN  Casado(st.encontrados \cup {proc},
                        IF download \notin Range(st.downloads)
                        THEN Append(st.downloads, download)
                        ELSE st.downloads,
                        [st.reivindicado EXCEPT ![proc] = @ \cup {download.hash}])

\* lines 423-427: the inner loop over download.get_numeros_processos()
RECURSIVE CasarProcs(_, _, _, _)
CasarProcs(st, download, nums, processos) ==
    IF nums = {} THEN st
    ELSE LET proc == CHOOSE x \in nums : TRUE
             st1 == IF DeveReivindicar(proc, processos, st.encontrados)
                    THEN Casado(st.encontrados \cup {proc},
                                IF DeveAgendar(download, st.downloads)
                                THEN Append(st.downloads, download)
                                ELSE st.downloads,
                                [st.reivindicado EXCEPT ![proc] = @ \cup {download.hash}])
                    ELSE st
         IN  CasarProcs(st1, download, nums \ {proc}, processos)

\* lines 422-427: the outer loop over the listing
RECURSIVE CasarDisponiveis(_, _, _, _)
CasarDisponiveis(st, disponiveis, i, processos) ==
    IF i > Len(disponiveis) THEN st
    ELSE CasarDisponiveis(
             CasarProcs(st, disponiveis[i], get_numeros_processos(disponiveis[i]), processos),
             disponiveis, i + 1, processos)

\* download.py:432, the test that ends the polling early
TodosEncontrados(encontrados, processos) == Cardinality(encontrados) >= Len(processos)

(***************************************************************************)
(* SessionManager: the two files of the session directory                  *)
(***************************************************************************)
\* longest time the clock runs, in units of 4 hours
MaxAgora == 3
\* most sessions the portal opens for the user
MaxSessoes == 2

\* max_age_hours of SessionManager.is_valid: 8 hours, in units of 4 hours
MaxAgeHours == 2

\* A file is absent, unreadable (truncated by a failed write) or holds a value:
\* cookies.pkl the cookie bundle, session_info.json the capture timestamp
Ausente == [estado |-> "ausente", valor |-> 0]
Corrompido == [estado |-> "corrompido", valor |-> 0]
Arquivo(valor) == [estado |-> "ok", valor |-> valor]

\* a variant that does not look at the age of the saved session
is_valid_SemIdade(info, agora, max_age_hours) == info.estado = "ok"

\* session.py:55-69
is_valid(info, agora, max_age_hours) ==
    IF info.estado = "ausente" THEN FALSE
    ELSE IF info.estado = "corrompido" THEN FALSE
    ELSE (agora - info.valor) < max_age_hours

\* utils/pje_automation.py:143-167: the Selenium client's age test
is_session_valid(info, agora, max_age_hours) ==
    IF info.estado # "ok" THEN FALSE
    ELSE IF (agora - info.valor) > max_age_hours THEN FALSE
    ELSE TRUE

\* A cookie jar: the portal session its session cookie names (0: none) and
\* whether it holds a cookie under another name
Jar(id, extra) == [id |-> id, extra |-> extra]
JarVazio == Jar(0, FALSE)

\* RequestsCookieJar.update: the cookies of outro are set in jar, the cookies
\* jar holds under other names stay
update(jar, outro) ==
    Jar(IF outro.id # 0 THEN outro.id ELSE jar.id, outro.extra \/ jar.extra)

\* session.py:42-53: the result and the cookie jar after session.cookies.update
load(cookies, jar) ==
    IF cookies.estado = "ok"
    THEN [ok |-> TRUE, jar |-> update(jar, cookies.valor)]
    ELSE [ok |-> FALSE, jar |-> jar]

\* a variant that writes the cookie bundle and leaves the timestamp alone
save_SoCookies(cookies, info, jar, agora, falha) ==
    [cookies |-> Arquivo(jar), info |-> info, ok |-> TRUE]

\* how SessionManager.save may end: "ok", or an I/O error before cookies.pkl
\* is opened, while it is written, or when session_info.json is opened
FalhasSave == {"ok", "abrir", "cookies", "info"}

\* session.py:25-40: the two files and the returned flag
save(cookies, info, jar, agora, falha) ==
    IF falha = "abrir" THEN [cookies |-> cookies, info |-> info, ok |-> FALSE]
    ELSE IF falha = "cookies" THEN [cookies |-> Corrompido, info |-> info, ok |-> FALSE]
    ELSE IF falha = "info" THEN [cookies |-> Arquivo(jar), info |-> info, ok |-> FALSE]
    ELSE [cookies |-> Arquivo(jar), info |-> Arquivo(agora), ok |-> TRUE]

\* a variant that removes the cookie bundle and leaves the timestamp
clear_SoCookies(cookies, info) == [cookies |-> Ausente, info |-> info]

\* session.py:71-76: the two files after clear
clear(cookies, info) == [cookies |-> Ausente, info |-> Ausente]

\* how SessionManager.clear may end part-way: the unlink of cookies.pkl or
\* the unlink of session_info.json raises
FalhasClear == {"cookies", "info"}

\* session.py:71-76 when an unlink raises: whether clear raises at all (a file
\* that does not exist is not unlinked) and the two files it leaves
clear_ate(cookies, info, falha) ==
    IF falha = "cookies" /\ cookies.estado # "ausente"
    THEN [cookies |-> cookies, info |-> info, levantou |-> TRUE]
    ELSE IF falha = "info" /\ info.estado # "ausente"
    THEN [cookies |-> Ausente, info |-> info, levantou |-> TRUE]
    ELSE [cookies |-> Ausente, info |-> Ausente, levantou |-> FALSE]

\* what a clear of this store removes: a saved session, or less than that
Removido(cookies, info) ==
    IF cookies.estado = "ok" /\ info.estado = "ok" THEN "sessao" ELSE "resto"

(***************************************************************************)
(* AuthService                                                             *)
(***************************************************************************)
VARIABLES
    cookies_file,       \* SessionManager.cookies_file
    session_info_file,  \* SessionManager.session_info_file
    jar,                \* AuthService.session.cookies
    usuario,            \* AuthService.usuario is set
    agora,              \* time.time(), in units of 4 hours
    vivas,              \* the bundles the portal still accepts
    abertas,            \* how many sessions the portal has opened
    limpou,             \* what SessionManager.clear removed, "nao" once save is called
    ultimo_login        \* <<call>>: the login call just made

varsAuth == <<cookies_file, session_info_file, jar, usuario, agora, vivas,
              abertas, limpou, ultimo_login>>

\* auth.py:56-75: the probe succeeds when the request goes through and the
\* portal accepts the cookies
verificar_sessao(cookies, aceitas, rede) == rede /\ cookies.id \in aceitas

\* What happens around one login call:
\*   credenciais   a username and a password are at hand
\*   rede_ativa, rede_restaurada, rede_final   the probe request of the active
\*       session, of the restored session and after the handshake goes through
\*   handshake     how far the handshake gets: the login page request raises,
\*       does not end at the SSO, carries no authenticate action, the
\*       credential post raises, the portal refuses or accepts the credentials
\*   save          how SessionManager.save ends
\* The outcome of the save is only read after a handshake whose final probe
\* succeeds, and nothing is read without credentials, so these fields are kept
\* at a fixed value in every other environment.
AmbienteLogin(credenciais, rede_ativa, rede_restaurada, hs, rede_final, falha) ==
    [credenciais |-> credenciais, rede_ativa |-> rede_ativa,
     rede_restaurada |-> rede_restaurada, handshake |-> hs,
     rede_final |-> rede_final, save |-> falha]

AmbientesLogin ==
    { AmbienteLogin(FALSE, FALSE, FALSE, "get_excecao", FALSE, "ok") }
    \cup
    { AmbienteLogin(TRUE, a, r, h, FALSE, "ok") :
        a \in BOOLEAN, r \in BOOLEAN,
        h \in {"get_excecao", "sem_sso", "sem_action", "post_excecao",
               "recusado", "aceito"} }
    \cup
    { AmbienteLogin(TRUE, a, r, h, TRUE, f) :
        a \in BOOLEAN, r \in BOOLEAN, h \in {"recusado", "aceito"},
        f \in FalhasSave }

\* a variant that never restores
restaurar_sessao_Nunca(info, cookies, cookies_ativos, aceitas, hora, rede) ==
    [ok |-> FALSE, jar |-> cookies_ativos, sonda |-> "nao"]

\* auth.py:77-90
restaurar_sessao(info, cookies, cookies_ativos, aceitas, hora, rede) ==
    IF ~is_valid(info, hora, MaxAgeHours)
    THEN [ok |-> FALSE, jar |-> cookies_ativos, sonda |-> "nao"]
    ELSE LET l == load(cookies, cookies_ativos)
         IN  IF ~l.ok
             THEN [ok |-> FALSE, jar |-> l.jar, sonda |-> "nao"]
             ELSE IF verificar_sessao(l.jar, aceitas, rede)
             THEN [ok |-> TRUE, jar |-> l.jar, sonda |-> "ok"]
             ELSE [ok |-> FALSE, jar |-> l.jar, sonda |-> "falhou"]

\* the state a login call leaves and what it did
Login(resultado, cookies, info, cookies_ativos, aceitas, n_abertas, logado, sonda_ativa, sonda_restaurada, sonda_final, gets, posts, salvar) ==
    [resultado |-> resultado, cookies_file |-> cookies, session_info_file |-> info,
     jar |-> cookies_ativos, vivas |-> aceitas, abertas |-> n_abertas,
     usuario |-> logado, sonda_ativa |-> sonda_ativa,
     sonda_restaurada |-> sonda_restaurada, sonda_final |-> sonda_final,
     gets |-> gets, posts |-> posts, salvar |-> salvar]

\* auth.py:121-177: the handshake, entered with the files and the jar as the
\* first part of login left them
handshake(amb, cookies, info, cookies_ativos, sonda_ativa, sonda_restaurada) ==
    IF amb.handshake \in {"get_excecao", "sem_sso", "sem_action"}
    THEN Login(FALSE, cookies, info, cookies_ativos, vivas, abertas, usuario,
               sonda_ativa, sonda_restaurada, "nao", 1, 0, "nao")
    ELSE IF amb.handshake = "post_excecao"
    THEN Login(FALSE, cookies, info, cookies_ativos, vivas, abertas, usuario,
               sonda_ativa, sonda_restaurada, "nao", 1, 1, "nao")
    ELSE LET aceito == amb.handshake = "aceito"
             novo == abertas + 1
             jar1 == IF aceito THEN Jar(novo, cookies_ativos.extra) ELSE cookies_ativos
             vivas1 == IF aceito THEN vivas \cup {novo} ELSE vivas
             abertas1 == IF aceito THEN novo ELSE abertas
         IN  IF verificar_sessao(jar1, vivas1, amb.rede_final)
             THEN LET s == save(cookies, info, jar1, agora, amb.save)
                  IN  Login(TRUE, s.cookies, s.info, jar1, vivas1, abertas1, TRUE,
                            sonda_ativa, sonda_restaurada, "ok", 1, 1,
                            IF s.ok THEN "ok" ELSE "falhou")
             ELSE Login(FALSE, cookies, info, jar1, vivas1, abertas1, usuario,
                        sonda_ativa, sonda_restaurada, "falhou", 1, 1, "nao")

\* auth.py:92-177
login(forcar, amb) ==
    IF ~amb.credenciais
    THEN Login(FALSE, cookies_file, session_info_file, jar, vivas, abertas, usuario,
               "nao", "nao", "nao", 0, 0, "nao")
    ELSE IF forcar
    THEN LET c == clear(cookies_file, session_info_file)
         IN  handshake(amb, c.cookies, c.info, jar, "nao", "nao")
    ELSE IF verificar_sessao(jar, vivas, amb.rede_ativa)
    THEN Login(TRUE, cookies_file, session_info_file, jar, vivas, abertas, TRUE,
               "ok", "nao", "nao", 0, 0, "nao")
    ELSE LET r == restaurar_sessao(session_info_file, cookies_file, jar, vivas,
                                   agora, amb.rede_restaurada)
         IN  IF r.ok
             THEN Login(TRUE, cookies_file, session_info_file, r.jar, vivas, abertas,
                        TRUE, "falhou", "ok", "nao", 0, 0, "nao")
             ELSE handshake(amb, cookies_file, session_info_file, r.jar,
                            "falhou", r.sonda)

InitAuth ==
    /\ cookies_file = Ausente
    /\ session_info_file = Ausente
    /\ jar = JarVazio
    /\ usuario = FALSE
    /\ agora = 0
    /\ vivas = {}
    /\ abertas = 0
    /\ limpou = "nao"
    /\ ultimo_login = <<>>

(***************************************************************************)
(* DownloadService.baixar_arquivo                                          *)
(***************************************************************************)
\* What the portal does during one baixar_arquivo call: "ok", or
\* obter_url_download returns nothing ("sem_url"), or the transfer answers
\* another status ("http") or raises ("excecao")
AmbientesBaixar == {"ok", "sem_url", "http", "excecao"}

\* the file path appended to relatorio["arquivos"] (client.py:197 and :218)
ArquivoDireto(numero) == [tipo |-> "direto", ref |-> numero]
ArquivoArea(download) == [tipo |-> "area", ref |-> download.hash]

\* download.py:381-386: the requests baixar_arquivo sends, in order
pedidos_de_baixar(amb) ==
    IF amb = "sem_url" THEN <<"url_download">>
    ELSE <<"url_download", "transferencia">>

\* the returned path as a sequence: <<>> stands for None
baixar_arquivo(download, amb) ==
    IF amb = "sem_url" THEN <<>>
    ELSE IF amb = "ok" THEN <<ArquivoArea(download)>>
    ELSE <<>>

(***************************************************************************)
(* State of one batch (PJEAutomacao.processar_tarefa)                      *)
(***************************************************************************)
VARIABLES
    pc,                    \* where processar_tarefa stands
    processos,             \* the list being processed (client.py:168-176)
    aguardar,              \* the aguardar argument
    i,                     \* position of the submission loop in processos
    relatorio,             \* the report dictionary
    processos_para_area,   \* client.py:180
    diagnosticos,          \* DownloadService.diagnosticos
    downloads_solicitados, \* DownloadService.downloads_solicitados
    ultima,                \* <<call>>: the solicitar_download call just made
    decorrido,             \* time.time() - inicio in aguardar_downloads
    ciclos,                \* how many listings aguardar_downloads has made
    dormido,               \* how long aguardar_downloads has slept before it
                           \* takes inicio
    eventos,               \* the requests and the waits of the step just made,
                           \* in the order the code makes them
    listou,                \* <<outcome>>: how the listar_disponiveis call of
                           \* the poll cycle just completed went
    encontrados,           \* local of aguardar_downloads
    downloads,             \* local of aguardar_downloads, then client.py:210
    reivindicado,          \* history of download.py:425, per case number
    disponiveis,           \* the listing of the poll cycle just completed
    j,                     \* position of the fetch loop in downloads
    preludio               \* <<call>>: what the prelude of the batch met

varsLote == <<pc, processos, aguardar, i, relatorio, processos_para_area,
              diagnosticos, downloads_solicitados, ultima, decorrido, ciclos, dormido,
              eventos, listou, encontrados, downloads, reivindicado,
              disponiveis, j, preludio>>

(***************************************************************************)
(* State of one tag batch (src/downloadProcessByTag.py, main)              *)
(***************************************************************************)
VARIABLES
    fase,                 \* where main stands
    cartoes,              \* the process cards the tag search shows
    processosAnalisados,  \* relatorio_parcial["processosAnalisados"], the same
                          \* list as results_report["processosDetalhados"]
    linhas,               \* the rows of the download-area table not yet visited
    downloaded_numbers    \* local of _process_download_table

varsEtiqueta == <<fase, cartoes, processosAnalisados, linhas, downloaded_numbers>>

(***************************************************************************)
(* State of ProfileService and of what the portal keeps for each session   *)
(***************************************************************************)
VARIABLES
    perfis,          \* ProfileService.perfis
    passo,           \* where selecionar_por_nome stands
    nome_pedido,     \* <<call>>: the selection in progress, its nome argument
                     \* and how the save of listar's login ended
    contexto_de,     \* the profile the portal has selected for each session
    ultima_selecao,  \* <<call>>: the selecionar_por_nome call just made
    ultimo_pedido    \* <<request>>: the request a service just made

varsPerfil == <<perfis, passo, nome_pedido, contexto_de, ultima_selecao,
                ultimo_pedido>>

(***************************************************************************)
(* State of one aguardar_downloads_prontos call of the endpoint script      *)
(* (src/downloadProcessTaskEndpoint.py); times in units of five seconds     *)
(***************************************************************************)
VARIABLES
    onde,                  \* where aguardar_downloads_prontos stands
    quantidade_esperada,   \* its argument, relatorio["downloads_solicitados"]
    tempo_espera,          \* the caller's tempo_espera, from which it derives
                           \* tempo_maximo and tempo_minimo_inicial
    tempo_decorrido,       \* local of aguardar_downloads_prontos
    downloads_anteriores,  \* local of aguardar_downloads_prontos
    tempo_sem_novos,       \* local of aguardar_downloads_prontos
    listagens,             \* how many listings the call has made
    retorno,               \* <<exit>>: which return statement ended the call,
                           \* how many downloads it returned and how many of
                           \* them name no case of this task
    buscados               \* <<loop>>: the downloads handed to baixar_arquivo

varsProntos == <<onde, quantidade_esperada, tempo_espera, tempo_decorrido,
                 downloads_anteriores, tempo_sem_novos, listagens, retorno,
                 buscados>>

\* client.py:134-146
RelatorioNovo ==
    [processos_encontrados |-> 0, solicitacoes_sucesso |-> 0,
     solicitacoes_falha |-> 0, downloads_diretos |-> 0,
     downloads_concluidos |-> 0, arquivos |-> <<>>, falhas |-> <<>>,
     erro |-> ""]

NadaReivindicado == [p \in Numeros |-> {}]

\* the downloadsDisponiveis a reply of the pickup area may carry
Listagens(procs) == SeqsUpTo(CatalogoPara(procs), MaxListing)

\* How one listar_disponiveis call may go: a 200 reply with its listing, a
\* reply of another status (with no listing in its body, or with one item),
\* a request that raises, or no user on the AuthService even after
\* verificar_sessao
RespostasListar(procs) ==
    {[resultado |-> "ok", downloads |-> l] : l \in Listagens(procs)} \cup
    {[resultado |-> "http", downloads |-> l] : l \in SeqsUpTo(CatalogoPara(procs), 1)} \cup
    {[resultado |-> r, downloads |-> <<>>] : r \in {"excecao", "sem_usuario"}}

\* a variant that reads the body of the reply whatever its status
listar_disponiveis_SemStatus(resp) == resp.downloads

\* download.py:327-354: the listing of a 200 reply, [] otherwise (with no
\* user, self.auth.usuario.id_usuario raises inside the try)
listar_disponiveis(resp) ==
    IF resp.resultado = "ok" THEN resp.downloads ELSE <<>>

\* the requests of one listar_disponiveis call: with no user the session is
\* probed (line 330) and the listing request is never built
pedidos_de_listar(resp) ==
    IF resp.resultado = "sem_usuario" THEN <<"currentUser">> ELSE <<"listar">>

InitLote ==
    /\ pc = "ocioso"
    /\ processos = <<>>
    /\ aguardar = TRUE
    /\ i = 1
    /\ relatorio = RelatorioNovo
    /\ processos_para_area = <<>>
    /\ diagnosticos = <<>>
    /\ downloads_solicitados = {}
    /\ ultima = <<>>
    /\ decorrido = 0
    /\ ciclos = 0
    /\ dormido = 0
    /\ eventos = <<>>
    /\ listou = <<>>
    /\ encontrados = {}
    /\ downloads = <<>>
    /\ reivindicado = NadaReivindicado
    /\ disponiveis = <<>>
    /\ j = 1
    /\ preludio = <<>>

\* the locals of aguardar_downloads and of the fetch loop, not yet in scope
LocaisLimpos ==
    /\ decorrido' = 0
    /\ ciclos' = 0
    /\ encontrados' = {}
    /\ downloads' = <<>>
    /\ reivindicado' = NadaReivindicado
    /\ disponiveis' = <<>>
    /\ j' = 1

\* What the prelude of one processar_tarefa call meets:
\*   autenticado    AuthService.ensure_logged_in returns True when called
\*   perfil         "nenhum": no nome_perfil was given; "desconhecido": no
\*                  listed profile contains the name; "recusado": the switch
\*                  request fails or the probe after it does; "selecionado"
\*   tarefas_cache  TaskService.tarefas_cache already holds a task list
\*   tarefa         the task list at hand (cached or just fetched) has the task
\* A field that the prelude does not read, or whose value does not change
\* what the prelude does, is kept at a fixed value: after a failed selection
\* nothing else is read, a selected profile empties the cache, and with a
\* session the cache only decides whether the list is requested again.
AmbientePreludio(autenticado, perfil, tarefas_cache, tarefa) ==
    [autenticado |-> autenticado, perfil |-> perfil,
     tarefas_cache |-> tarefas_cache, tarefa |-> tarefa]

AmbientesPreludio ==
    { AmbientePreludio(TRUE, p, FALSE, FALSE) : p \in {"desconhecido", "recusado"} }
    \cup
    { AmbientePreludio(TRUE, p, FALSE, t) : p \in {"nenhum", "selecionado"},
                                           t \in BOOLEAN }
    \cup
    { AmbientePreludio(FALSE, "selecionado", FALSE, FALSE) }
    \cup
    { AmbientePreludio(FALSE, "nenhum", c, t) : c \in BOOLEAN, t \in BOOLEAN }

\* client.py:74-80 over profile.py:120-133 and 72-118: listar and
\* selecionar_por_indice both give up when ensure_logged_in fails
selecionar_perfil(amb) == amb.autenticado /\ amb.perfil = "selecionado"

\* client.py:92-94 over task.py:93-129: the cache is used when it holds a
\* list (it is emptied by a profile selection, client.py:79), else
\* listar_tarefas is called, which returns [] without a session (task.py:32)
buscar_tarefa(amb) ==
    IF amb.tarefas_cache /\ amb.perfil = "nenhum"
    THEN amb.tarefa
    ELSE amb.autenticado /\ amb.tarefa

\* a variant that requests the pages without looking at the session
listar_processos_SemSessao(autenticado, resposta) == resposta

\* client.py:96-98 over task.py:178-204 and 131-176: resposta is the list the
\* portal holds; without a session no page is requested (task.py:139-140)
listar_processos(autenticado, resposta) ==
    IF autenticado THEN resposta ELSE <<>>

\* client.py:127-165: limpar(), a fresh report, the profile selection and the
\* task lookup
IniciarTarefa ==
    /\ UNCHANGED <<varsAuth, varsEtiqueta, varsPerfil, varsProntos>>
    /\ eventos' = <<>>
    /\ listou' = <<>>
    /\ pc \in {"ocioso", "fim"}
    /\ diagnosticos' = <<>>
    /\ downloads_solicitados' = {}
    /\ processos_para_area' = <<>>
    /\ ultima' = <<>>
    /\ i' = 1
    /\ LocaisLimpos
    /\ dormido' = 0
    /\ processos' = <<>>
    /\ \E amb \in AmbientesPreludio :
         /\ preludio' = <<amb>>
         /\ IF amb.perfil # "nenhum" /\ ~selecionar_perfil(amb)
            THEN /\ relatorio' = [RelatorioNovo EXCEPT !.erro = "Falha ao selecionar perfil"]
                 /\ pc' = "fim"
                 /\ UNCHANGED aguardar
            ELSE IF ~buscar_tarefa(amb)
            THEN /\ relatorio' = [RelatorioNovo EXCEPT !.erro = "Tarefa nao encontrada"]
                 /\ pc' = "fim"
                 /\ UNCHANGED aguardar
            ELSE /\ relatorio' = RelatorioNovo
                 /\ pc' = "listar"
                 /\ \E esperar \in BOOLEAN : aguardar' = esperar

\* client.py:168-177: the process list of the task
ListarProcessos ==
    /\ UNCHANGED <<varsAuth, varsEtiqueta, varsPerfil, varsProntos>>
    /\ eventos' = <<>>
    /\ listou' = <<>>
    /\ pc = "listar"
    /\ \E resposta \in ListasDeProcessos :
         \E lista \in {listar_processos(preludio[1].autenticado, resposta)} :
             /\ relatorio' = [relatorio EXCEPT !.processos_encontrados = Len(lista)]
             /\ processos' = lista
             /\ pc' = IF lista = <<>> THEN "fim" ELSE "laco"
    /\ UNCHANGED <<aguardar, i, processos_para_area, diagnosticos,
                   downloads_solicitados, ultima, decorrido, ciclos, dormido, encontrados,
                   downloads, reivindicado, disponiveis, j, preludio>>

\* client.py:192-202: the accounting of one solicitar_download result
Contabilizar(rel, numero, r) ==
    IF r.sucesso
    THEN IF r.tipo_download = "direto" /\ r.arquivo
         THEN [rel EXCEPT !.solicitacoes_sucesso = @ + 1,
                          !.downloads_diretos = @ + 1,
                          !.arquivos = Append(@, ArquivoDireto(numero))]
         ELSE [rel EXCEPT !.solicitacoes_sucesso = @ + 1]
    ELSE [rel EXCEPT !.solicitacoes_falha = @ + 1,
                     !.falhas = Append(@, numero)]

\* client.py:195-199: whether the case number joins processos_para_area
VaiParaArea(r) == r.sucesso /\ ~(r.tipo_download = "direto" /\ r.arquivo)

\* client.py:182-204: one iteration of the submission loop
ProcessarProcesso ==
    /\ UNCHANGED <<varsAuth, varsEtiqueta, varsPerfil, varsProntos>>
    /\ pc = "laco"
    /\ i <= Len(processos)
    /\ \E amb \in AmbientesPara(processos) :
         \E numero \in {processos[i]} :
         \E r \in {solicitar_download(numero, amb, TRUE)} :
             /\ diagnosticos' = diagnosticos \o r.diags
             /\ downloads_solicitados' =
                  IF r.solicitado THEN downloads_solicitados \cup {numero}
                  ELSE downloads_solicitados
             /\ relatorio' = Contabilizar(relatorio, numero, r)
             /\ processos_para_area' =
                  IF VaiParaArea(r) THEN Append(processos_para_area, numero)
                  ELSE processos_para_area
             /\ ultima' = <<[numero |-> numero, amb |-> amb, retorno |-> r]>>
             /\ eventos' = pedidos_de_solicitar(amb, TRUE) \o <<"delay">>
             /\ listou' = <<>>
    /\ i' = i + 1
    /\ preludio' = <<>>
    /\ UNCHANGED <<pc, processos, aguardar, decorrido, ciclos, dormido, encontrados, downloads,
                   reivindicado, disponiveis, j>>

\* client.py:207: the submission loop is over
FimDoLaco ==
    /\ UNCHANGED <<varsAuth, varsEtiqueta, varsPerfil, varsProntos>>
    /\ eventos' = <<>>
    /\ listou' = <<>>
    /\ pc = "laco"
    /\ i > Len(processos)
    /\ pc' = IF aguardar /\ processos_para_area # <<>> THEN "espera" ELSE "final"
    /\ ultima' = <<>>
    /\ preludio' = <<>>
    /\ UNCHANGED <<processos, aguardar, i, relatorio, processos_para_area,
                   diagnosticos, downloads_solicitados, decorrido, ciclos, dormido, encontrados,
                   downloads, reivindicado, disponiveis, j>>

\* a variant of time.sleep that returns at once
sleep_Retorna(t, segundos) == t

\* download.py:413, time.sleep: it returns when segundos have passed
sleep(t, segundos) == t + segundos

\* a variant of the loop condition that still holds at the ceiling
DentroDoTempo_Inclusive(t) == t <= TempoEspera

\* download.py:419: the loop condition, (time.time() - inicio) < tempo_maximo
DentroDoTempo(t) == t < TempoEspera

\* download.py:411-417: the initial sleep, then inicio, encontrados, downloads
IniciarEspera ==
    /\ UNCHANGED <<varsAuth, varsEtiqueta, varsProntos, varsPerfil, preludio>>
    /\ eventos' = <<"sleep">>
    /\ listou' = <<>>
    /\ pc = "espera"
    /\ pc' = "poll"
    /\ dormido' = sleep(dormido, EsperaInicial)
    /\ LocaisLimpos
    /\ UNCHANGED <<processos, aguardar, i, relatorio, processos_para_area,
                   diagnosticos, downloads_solicitados, ultima>>

\* download.py:419-436: one poll cycle: the listing (taking latencia), the
\* matching loop, then either the early return or the sleep
CicloPoll ==
    /\ UNCHANGED <<varsAuth, varsEtiqueta, varsProntos, varsPerfil, preludio>>
    /\ pc = "poll"
    /\ DentroDoTempo(decorrido)
    /\ \E resp \in RespostasListar(processos), latencia \in 0..MaxLatencia :
         \E lista \in {listar_disponiveis(resp)} :
         \E st \in {CasarDisponiveis(Casado(encontrados, downloads, reivindicado),
                                     lista, 1, processos_para_area)} :
             /\ disponiveis' = lista
             /\ listou' = <<resp.resultado>>
             /\ ciclos' = ciclos + 1
             /\ encontrados' = st.encontrados
             /\ downloads' = st.downloads
             /\ reivindicado' = st.reivindicado
             /\ IF TodosEncontrados(st.encontrados, processos_para_area)
                THEN /\ pc' = "baixar"
                     /\ decorrido' = decorrido + latencia
                     /\ eventos' = pedidos_de_listar(resp)
                ELSE /\ pc' = "poll"
                     /\ decorrido' = decorrido + latencia + Intervalo
                     /\ eventos' = pedidos_de_listar(resp) \o <<"sleep">>
    /\ UNCHANGED <<processos, aguardar, i, relatorio, processos_para_area,
                   diagnosticos, downloads_solicitados, ultima, j, dormido>>

\* download.py:419 false, then 438-439: the wait budget is spent
EsgotarEspera ==
    /\ UNCHANGED <<varsAuth, varsEtiqueta, varsProntos, varsPerfil, preludio>>
    /\ eventos' = <<>>
    /\ listou' = <<>>
    /\ pc = "poll"
    /\ ~DentroDoTempo(decorrido)
    /\ pc' = "baixar"
    /\ disponiveis' = <<>>
    /\ UNCHANGED <<processos, aguardar, i, relatorio, processos_para_area,
                   diagnosticos, downloads_solicitados, ultima, decorrido, ciclos, dormido,
                   encontrados, downloads, reivindicado, j>>

\* client.py:214-218: one iteration of the fetch loop
BaixarArquivo ==
    /\ UNCHANGED <<varsAuth, varsEtiqueta, varsProntos, varsPerfil, preludio>>
    /\ pc = "baixar"
    /\ j <= Len(downloads)
    /\ \E amb \in AmbientesBaixar :
         /\ relatorio' = [relatorio EXCEPT
                            !.arquivos = @ \o baixar_arquivo(downloads[j], amb)]
         /\ eventos' = <<"delay">> \o pedidos_de_baixar(amb)
         /\ listou' = <<>>
    /\ j' = j + 1
    /\ disponiveis' = <<>>
    /\ ciclos' = 0
    /\ dormido' = 0
    /\ UNCHANGED <<pc, processos, aguardar, i, processos_para_area, diagnosticos,
                   downloads_solicitados, ultima, decorrido, encontrados,
                   downloads, reivindicado>>

\* client.py:214: the fetch loop is over
FimDeBaixar ==
    /\ UNCHANGED <<varsAuth, varsEtiqueta, varsProntos, varsPerfil, preludio>>
    /\ eventos' = <<>>
    /\ listou' = <<>>
    /\ pc = "baixar"
    /\ j > Len(downloads)
    /\ pc' = "final"
    /\ disponiveis' = <<>>
    /\ ciclos' = 0
    /\ dormido' = 0
    /\ UNCHANGED <<processos, aguardar, i, relatorio, processos_para_area,
                   diagnosticos, downloads_solicitados, ultima, decorrido,
                   encontrados, downloads, reivindicado, j>>

\* client.py:220-237: the totals, the saved report and the return
Finalizar ==
    /\ UNCHANGED <<varsAuth, varsEtiqueta, varsProntos, varsPerfil, preludio>>
    /\ eventos' = <<>>
    /\ listou' = <<>>
    /\ pc = "final"
    /\ relatorio' = [relatorio EXCEPT !.downloads_concluidos = Len(relatorio.arquivos)]
    /\ pc' = "fim"
    /\ UNCHANGED <<processos, aguardar, i, processos_para_area, diagnosticos,
                   downloads_solicitados, ultima, decorrido, ciclos, dormido, encontrados,
                   downloads, reivindicado, disponiveis, j>>

NextLote ==
    \/ IniciarTarefa
    \/ ListarProcessos
    \/ ProcessarProcesso
    \/ FimDoLaco
    \/ IniciarEspera
    \/ CicloPoll
    \/ EsgotarEspera
    \/ BaixarArquivo
    \/ FimDeBaixar
    \/ Finalizar

(***************************************************************************)
(* The tag batch: downloadProcessOnTagSearch, then                         *)
(* PjeConsultaAutomator.download_files_from_download_area                  *)
(***************************************************************************)
NaoIdentificado == "NAO IDENTIFICADO"

\* info_processo as appended to processosAnalisados (the timestamp and the
\* remarks are left out)
InfoProcesso(numero, statusDownload) ==
    [numero |-> numero, statusDownload |-> statusDownload]

\* downloadProcessByTag.py:430-471: what click_download_button_and_wait returns
StatusDeDownload == {"direto", "area_download", "sem_documento", "erro"}

\* downloadProcessByTag.py:506-584: the entry one iteration of the loop leaves:
\* the card cannot be read, or the number is read and the attempt ends in
\* one of the statuses (an exception after the number was read gives "erro")
Analises(numero) ==
    { InfoProcesso(NaoIdentificado, "erro") }
    \cup { InfoProcesso(numero, st) : st \in StatusDeDownload }

\* downloadProcessByTag.py:636-639
processos_da_etiqueta(analisados) ==
    LET identificado(info) == info.numero # NaoIdentificado
        filtrados == SelectSeq(analisados, identificado)
    IN  [k \in DOMAIN filtrados |-> filtrados[k].numero]

\* pje_automation.py:990-1001: the first entry of the number gets the status
update_process_status_in_report(detalhados, process_number, status) ==
    IF \E k \in DOMAIN detalhados : detalhados[k].numero = process_number
    THEN LET k == CHOOSE m \in DOMAIN detalhados :
                    /\ detalhados[m].numero = process_number
                    /\ \A n \in 1..(m - 1) : detalhados[n].numero # process_number
         IN  [detalhados EXCEPT ![k].statusDownload = status]
    ELSE detalhados

\* pje_automation.py:1003-1009, from position k of process_numbers on
RECURSIVE update_not_found_processes(_, _, _, _)
update_not_found_processes(process_numbers, k, baixados, detalhados) ==
    IF k > Len(process_numbers) THEN detalhados
    ELSE update_not_found_processes(
             process_numbers, k + 1, baixados,
             IF process_numbers[k] \notin baixados
             THEN update_process_status_in_report(detalhados, process_numbers[k],
                                                  "nao_encontrado_area_download")
             ELSE detalhados)

\* the tables the download area may show (first column: the process number)
Tabelas == SeqsUpTo(Numeros \ {Terceiro}, MaxListing)

InitEtiqueta ==
    /\ fase = "inicio"
    /\ cartoes = <<>>
    /\ processosAnalisados = <<>>
    /\ linhas = <<>>
    /\ downloaded_numbers = {}

\* downloadProcessByTag.py:630-633 and 497-498: the tag search and its cards
BuscarEtiqueta ==
    /\ UNCHANGED <<varsLote, varsAuth, varsPerfil, varsProntos>>
    /\ fase = "inicio"
    /\ \E lista \in SeqsUpTo(Procs, MaxProcs) : cartoes' = lista
    /\ fase' = "analise"
    /\ UNCHANGED <<processosAnalisados, linhas, downloaded_numbers>>

\* downloadProcessByTag.py:500-584: one iteration over the cards
AnalisarProcesso ==
    /\ UNCHANGED <<varsLote, varsAuth, varsPerfil, varsProntos>>
    /\ fase = "analise"
    /\ Len(processosAnalisados) < Len(cartoes)
    /\ \E info \in Analises(cartoes[Len(processosAnalisados) + 1]) :
         processosAnalisados' = Append(processosAnalisados, info)
    /\ UNCHANGED <<fase, cartoes, linhas, downloaded_numbers>>

\* downloadProcessByTag.py:636-652 and pje_automation.py:849-876: every
\* identified process of the tag is handed to the download area; logado is
\* ensure_logged_in, carregou the loading of the table
AbrirAreaDeDownload ==
    /\ UNCHANGED <<varsLote, varsAuth, varsPerfil, varsProntos>>
    /\ fase = "analise"
    /\ Len(processosAnalisados) = Len(cartoes)
    /\ IF processos_da_etiqueta(processosAnalisados) = <<>>
       THEN /\ fase' = "fim"
            /\ UNCHANGED linhas
       ELSE \E logado \in BOOLEAN, carregou \in BOOLEAN, tabela \in Tabelas :
              IF logado /\ carregou
              THEN /\ fase' = "tabela"
                   /\ linhas' = tabela
              ELSE /\ tabela = <<>>
                   /\ carregou = logado
                   /\ fase' = "fim"
                   /\ UNCHANGED linhas
    /\ downloaded_numbers' = {}
    /\ UNCHANGED <<cartoes, processosAnalisados>>

\* pje_automation.py:953-973: one row of the table; clicou is the result of
\* _download_process_from_row
ProcessarLinha ==
    /\ UNCHANGED <<varsLote, varsAuth, varsPerfil, varsProntos>>
    /\ fase = "tabela"
    /\ linhas # <<>>
    /\ \E process_number \in {Head(linhas)} :
         LET alvo == /\ process_number \in Range(processos_da_etiqueta(processosAnalisados))
                     /\ process_number \notin downloaded_numbers
         IN  \E clicou \in (IF alvo THEN BOOLEAN ELSE {FALSE}) :
                IF clicou
                THEN /\ downloaded_numbers' = downloaded_numbers \cup {process_number}
                     /\ processosAnalisados' =
                          update_process_status_in_report(processosAnalisados, process_number,
                                                          "baixado_area_download")
                ELSE UNCHANGED <<downloaded_numbers, processosAnalisados>>
    /\ linhas' = Tail(linhas)
    /\ UNCHANGED <<fase, cartoes>>

\* pje_automation.py:882: the table is done, the rest is marked not found
AtualizarNaoEncontrados ==
    /\ UNCHANGED <<varsLote, varsAuth, varsPerfil, varsProntos>>
    /\ fase = "tabela"
    /\ linhas = <<>>
    /\ processosAnalisados' =
         update_not_found_processes(processos_da_etiqueta(processosAnalisados), 1,
                                    downloaded_numbers, processosAnalisados)
    /\ fase' = "fim"
    /\ UNCHANGED <<cartoes, linhas, downloaded_numbers>>

NextEtiqueta ==
    \/ BuscarEtiqueta
    \/ AnalisarProcesso
    \/ AbrirAreaDeDownload
    \/ ProcessarLinha
    \/ AtualizarNaoEncontrados

(***************************************************************************)
(* Operations on the authentication service and its environment            *)
(***************************************************************************)
\* PJEAutomacao.login (client.py:60-62): one call of AuthService.login
FazerLogin ==
    /\ UNCHANGED <<varsLote, varsEtiqueta, varsPerfil, varsProntos>>
    /\ \E forcar \in BOOLEAN, amb \in AmbientesLogin :
         /\ amb.handshake = "aceito" => abertas < MaxSessoes
         /\ \E r \in {login(forcar, amb)} :
                /\ cookies_file' = r.cookies_file
                /\ session_info_file' = r.session_info_file
                /\ jar' = r.jar
                /\ usuario' = r.usuario
                /\ vivas' = r.vivas
                /\ abertas' = r.abertas
                /\ limpou' = IF r.salvar # "nao" THEN "nao"
                             ELSE IF forcar /\ amb.credenciais
                             THEN Removido(cookies_file, session_info_file)
                             ELSE limpou
                /\ ultimo_login' =
                     <<[forcar |-> forcar, credenciais |-> amb.credenciais,
                        jar_antes |-> jar, limpou |-> limpou,
                        info_antes |-> session_info_file,
                        cookies_antes |-> cookies_file,
                        resultado |-> r.resultado,
                        sonda_ativa |-> r.sonda_ativa,
                        sonda_restaurada |-> r.sonda_restaurada,
                        sonda_final |-> r.sonda_final,
                        gets |-> r.gets, posts |-> r.posts,
                        excecao |-> IF r.gets = 0 THEN "nao"
                                    ELSE IF amb.handshake = "get_excecao" THEN "get"
                                    ELSE IF amb.handshake = "post_excecao" THEN "post"
                                    ELSE "nao",
                        salvar |-> r.salvar]>>
    /\ UNCHANGED agora

\* auth.py:185-189: SessionManager.clear (session.py:71-76), then the jar
LimparSessao ==
    /\ UNCHANGED <<varsLote, varsEtiqueta, varsPerfil, varsProntos>>
    /\ \E c \in {clear(cookies_file, session_info_file)} :
         /\ cookies_file' = c.cookies
         /\ session_info_file' = c.info
    /\ jar' = JarVazio
    /\ limpou' = Removido(cookies_file, session_info_file)
    /\ ultimo_login' = <<>>
    /\ UNCHANGED <<usuario, agora, vivas, abertas>>

\* session.py:71-76 called by limpar_sessao (auth.py:188) or by
\* login(force=True) (auth.py:117), an unlink raising: neither caller catches
\* the exception, so the jar is not emptied and no handshake is made
ClearLevanta ==
    /\ UNCHANGED <<varsLote, varsEtiqueta, varsPerfil, varsProntos>>
    /\ \E falha \in FalhasClear :
         \E c \in {clear_ate(cookies_file, session_info_file, falha)} :
            /\ c.levantou
            /\ cookies_file' = c.cookies
            /\ session_info_file' = c.info
    /\ limpou' = "nao"
    /\ ultimo_login' = <<>>
    /\ UNCHANGED <<jar, usuario, agora, vivas, abertas>>

\* the clock advances by one unit (4 hours)
PassarTempo ==
    /\ UNCHANGED <<varsLote, varsEtiqueta, varsPerfil, varsProntos>>
    /\ agora < MaxAgora
    /\ agora' = agora + 1
    /\ ultimo_login' = <<>>
    /\ UNCHANGED <<cookies_file, session_info_file, jar, usuario, vivas, abertas, limpou>>

\* the portal expires one of its sessions
PortalExpira ==
    /\ UNCHANGED <<varsLote, varsEtiqueta, varsProntos, perfis, passo, nome_pedido, contexto_de>>
    /\ \E b \in vivas : vivas' = vivas \ {b}
    /\ ultimo_login' = <<>>
    /\ ultima_selecao' = <<>>
    /\ ultimo_pedido' = <<>>
    /\ UNCHANGED <<cookies_file, session_info_file, jar, usuario, agora, abertas, limpou>>

\* the response to a request of one of the services, which all go through
\* AuthService.session, sets a cookie under another name
RespostaComCookie ==
    /\ UNCHANGED <<varsLote, varsEtiqueta, varsPerfil, varsProntos>>
    /\ ~jar.extra
    /\ jar' = Jar(jar.id, TRUE)
    /\ ultimo_login' = <<>>
    /\ UNCHANGED <<cookies_file, session_info_file, usuario, agora, vivas, abertas, limpou>>

\* the process ends and a new one starts: a fresh AuthService (auth.py:23-36)
Reiniciar ==
    /\ UNCHANGED <<varsLote, varsEtiqueta, varsPerfil, varsProntos>>
    /\ jar' = JarVazio
    /\ usuario' = FALSE
    /\ ultimo_login' = <<>>
    /\ UNCHANGED <<cookies_file, session_info_file, agora, vivas, abertas, limpou>>

NextAuth ==
    \/ FazerLogin
    \/ LimparSessao
    \/ ClearLevanta
    \/ PassarTempo
    \/ PortalExpira
    \/ RespostaComCookie
    \/ Reiniciar

(***************************************************************************)
(* ProfileService: matching a profile name                                  *)
(***************************************************************************)
\* bound: how many profiles the portal lists for the user, the three pages
\* of two profiles below apart
MaxPerfis == 1

\* A name is a sequence of characters; "A" is the one upper-case character of
\* the names used here, and no name carries leading or trailing blanks
Minuscula(c) == IF c = "A" THEN "a" ELSE c

\* str.lower
lower(s) == [k \in 1..Len(s) |-> Minuscula(s[k])]

\* the `in` operator on strings
contem(sub, s) ==
    \E k \in 0..(Len(s) - Len(sub)) : SubSeq(s, k + 1, k + Len(sub)) = sub

\* the name asked for, and the names the portal may list: one that equals
\* it but for the case, one that contains it, one that is similar to it
\* (ratio 0.8) and one that is less so (ratio 0.5)
NomesPedidos == {<<"a", "b">>}
NomesDePerfil == {<<"A", "b">>, <<"a", "b", "c">>, <<"a", "c", "b">>, <<"a", "c">>}

\* a page that lists a containing name before the equal one, one that
\* lists a similar name before a containing one, and one that
\* lists only names that are neither, below and above the threshold
PaginaContemAntes == <<<<"a", "b", "c">>, <<"A", "b">>>>
PaginaSimilarAntes == <<<<"a", "c", "b">>, <<"a", "b", "c">>>>
PaginaSoSimilares == <<<<"a", "c">>, <<"a", "c", "b">>>>

\* the profile rows of the page dev.seam, in the order of the page
PaginasDePerfis ==
    SeqsUpTo(NomesDePerfil, MaxPerfis)
    \cup {PaginaContemAntes, PaginaSimilarAntes, PaginaSoSimilares}

\* no profile (None, or a failed lookup)
Nenhum == -1

\* profile.py:24-49: one Perfil for each row, dtPerfil:<index> numbered from 0
extrair_perfis_html(pagina) ==
    [k \in 1..Len(pagina) |-> [index |-> k - 1, nome_completo |-> pagina[k]]]

\* a variant that settles for the first profile listed
perfil_por_nome_OuPrimeiro(nome, lista, k) ==
    IF lista = <<>> THEN Nenhum ELSE lista[1].index

\* profile.py:124-130: the index of the first profile, from position k on,
\* whose full name contains the name asked for
RECURSIVE perfil_por_nome(_, _, _)
perfil_por_nome(nome, lista, k) ==
    IF k > Len(lista) THEN Nenhum
    ELSE IF contem(lower(nome), lower(lista[k].nome_completo)) THEN lista[k].index
    ELSE perfil_por_nome(nome, lista, k + 1)

\* difflib.SequenceMatcher.find_longest_match: the longest block a and b
\* share, the one starting earliest in a and then earliest in b; <<x, y, n>>
BlocosComuns(a, b) ==
    { <<x, y, n>> \in (1..Len(a)) \X (1..Len(b)) \X (1..Len(a)) :
        /\ x + n - 1 <= Len(a)
        /\ y + n - 1 <= Len(b)
        /\ SubSeq(a, x, x + n - 1) = SubSeq(b, y, y + n - 1) }

find_longest_match(a, b) ==
    CHOOSE m \in BlocosComuns(a, b) :
        \A o \in BlocosComuns(a, b) :
            \/ m[3] > o[3]
            \/ m[3] = o[3] /\ m[1] < o[1]
            \/ m[3] = o[3] /\ m[1] = o[1] /\ m[2] <= o[2]

\* difflib.SequenceMatcher.get_matching_blocks: the characters matched
RECURSIVE matches(_, _)
matches(a, b) ==
    IF BlocosComuns(a, b) = {} THEN 0
    ELSE LET m == find_longest_match(a, b)
         IN  m[3] + matches(SubSeq(a, 1, m[1] - 1), SubSeq(b, 1, m[2] - 1))
                  + matches(SubSeq(a, m[1] + m[3], Len(a)),
                            SubSeq(b, m[2] + m[3], Len(b)))

\* downloadProcessByTagEndpoints.py:305-309: SequenceMatcher.ratio, 2*M/T, as
\* the fraction <<numerator, denominator>>
calcular_similaridade(str1, str2) ==
    IF Len(str1) + Len(str2) = 0 THEN <<1, 1>>
    ELSE <<2 * matches(lower(str1), lower(str2)), Len(str1) + Len(str2)>>

\* f >= g for two such fractions
MaiorOuIgual(f, g) == f[1] * g[2] >= g[1] * f[2]

\* downloadProcessByTagEndpoints.py:311, the default threshold 0.6
Threshold == <<6, 10>>

(***************************************************************************)
(* The services over AuthService: ProfileService, TaskService and the      *)
(* requests of DownloadService                                             *)
(***************************************************************************)
\* the result of a call that only probed the active session
SoSonda(ok) ==
    Login(ok, cookies_file, session_info_file, jar, vivas, abertas,
          IF ok THEN TRUE ELSE usuario, IF ok THEN "ok" ELSE "falhou",
          "nao", "nao", 0, 0, "nao")

\* auth.py:179-183: the probe (reaching the portal when rede), else login()
ensure_logged_in(rede, amb) ==
    IF verificar_sessao(jar, vivas, rede) THEN SoSonda(TRUE)
    ELSE login(FALSE, amb)

\* what the login inside ensure_logged_in may meet: as for a login call, its
\* save going through, and a probe going through only where there is a
\* session to probe: the active session one the portal accepts, the cookie
\* bundle on disk readable. Of the three ways the handshake ends before the
\* credentials are sent, which leave the same state, one is kept.
AmbientesRelogin ==
    {a \in AmbientesLogin :
        /\ a.save = "ok"
        /\ a.handshake \notin {"sem_sso", "sem_action"}
        /\ a.rede_ativa => jar.id \in vivas
        /\ a.rede_restaurada => cookies_file.estado = "ok"}

\* what one ensure_logged_in call may meet: with the probe going through
\* login is not called and the rest is not read
AmbientesDeSessao ==
    IF jar.id \in vivas
    THEN {[rede |-> TRUE, login |-> AmbienteLogin(FALSE, FALSE, FALSE, "get_excecao", FALSE, "ok")]}
         \cup [rede : {FALSE}, login : AmbientesRelogin]
    ELSE [rede : {FALSE}, login : AmbientesRelogin]

\* the state of AuthService and of the session store after a call that
\* ended as r
Apos(r) ==
    /\ cookies_file' = r.cookies_file
    /\ session_info_file' = r.session_info_file
    /\ jar' = r.jar
    /\ usuario' = r.usuario
    /\ vivas' = r.vivas
    /\ abertas' = r.abertas
    /\ limpou' = IF r.salvar # "nao" THEN "nao" ELSE limpou
    /\ ultimo_login' = <<>>
    /\ UNCHANGED agora

\* the portal sessions, numbered as they are opened
Sessoes == 1..MaxSessoes

\* the profile the portal has selected for the session of these cookies
contexto(cookies) == IF cookies.id \in Sessoes THEN contexto_de[cookies.id] ELSE Nenhum

InitPerfil ==
    /\ perfis = <<>>
    /\ passo = "ocioso"
    /\ nome_pedido = <<>>
    /\ contexto_de = [s \in Sessoes |-> Nenhum]
    /\ ultima_selecao = <<>>
    /\ ultimo_pedido = <<>>

\* what the request for the page dev.seam gives: the page, or an exception
\* or a status other than 200
RespostasDePerfis == [ok : {TRUE}, pagina : PaginasDePerfis]
                     \cup {[ok |-> FALSE, pagina |-> <<>>]}

\* profile.py:51-70, after ensure_logged_in ended as r
listar(r, resposta) ==
    IF r.resultado /\ resposta.ok THEN extrair_perfis_html(resposta.pagina)
    ELSE perfis

\* profile.py:120-123: selecionar_por_nome is called; with no profiles at
\* hand it calls listar first
IniciarSelecao ==
    /\ UNCHANGED <<varsLote, varsEtiqueta, varsProntos>>
    /\ passo = "ocioso"
    /\ passo' = "casar"
    /\ ultima_selecao' = <<>>
    /\ ultimo_pedido' = <<>>
    /\ IF perfis # <<>>
       THEN /\ \E nome \in NomesPedidos :
                 nome_pedido' = <<[nome |-> nome, listar |-> "nao"]>>
            /\ UNCHANGED <<varsAuth, perfis>>
       ELSE \E amb \in AmbientesDeSessao :
              /\ amb.login.handshake = "aceito" => abertas < MaxSessoes
              /\ \E r \in {ensure_logged_in(amb.rede, amb.login)} :
                   \E resposta \in IF r.resultado THEN RespostasDePerfis
                                   ELSE {[ok |-> FALSE, pagina |-> <<>>]} :
                     /\ Apos(r)
                     /\ perfis' = listar(r, resposta)
                     /\ \E nome \in NomesPedidos :
                          nome_pedido' = <<[nome |-> nome, listar |-> r.salvar]>>
    /\ UNCHANGED contexto_de

\* how the two requests of selecionar_por_indice end: the GET or the POST
\* raises, the portal answers without switching, or it switches
Trocas == {"get_excecao", "post_excecao", "ignorada", "feita"}

\* client.py:152-157: where processar_tarefa goes after selecionar_perfil
apos_selecionar_perfil(sucesso) ==
    IF ~sucesso THEN "retorna_erro" ELSE "buscar_tarefa"

\* the finished call: the name asked for, the index chosen, the session the
\* switch was requested under, how far the switch got, how the save of
\* listar's login and the save of selecionar_por_indice ended, the value
\* returned and what processar_tarefa does with it
Selecao(nome, indice, sessao, troca, salvar_listar, salvar_login, salvar, resultado) ==
    [nome |-> nome, indice |-> indice, sessao |-> sessao, troca |-> troca,
     salvar_listar |-> salvar_listar, salvar_login |-> salvar_login,
     salvar |-> salvar, resultado |-> resultado,
     lote |-> apos_selecionar_perfil(resultado)]

\* what selecionar_por_indice may meet after ensure_logged_in ended as r
AmbientesDeTroca(r) ==
    IF ~r.resultado
    THEN {[troca |-> "get_excecao", rede_final |-> FALSE, save |-> "ok"]}
    ELSE [troca : {"get_excecao", "post_excecao"}, rede_final : {FALSE}, save : {"ok"}]
         \cup [troca : {"ignorada", "feita"}, rede_final : {FALSE}, save : {"ok"}]
         \cup [troca : {"ignorada", "feita"}, rede_final : {TRUE}, save : FalhasSave]

\* profile.py:72-118 for the index chosen, after ensure_logged_in ended as r
selecionar_por_indice(index, r, amb) ==
    IF ~r.resultado
    THEN [login |-> r, troca |-> "nao", salvar |-> "nao", resultado |-> FALSE]
    ELSE IF amb.troca \in {"get_excecao", "post_excecao"}
    THEN [login |-> r, troca |-> amb.troca, salvar |-> "nao", resultado |-> FALSE]
    ELSE IF verificar_sessao(r.jar, r.vivas, amb.rede_final)
    THEN LET s == save(r.cookies_file, r.session_info_file, r.jar, agora, amb.save)
         IN  [login |-> [r EXCEPT !.cookies_file = s.cookies,
                                  !.session_info_file = s.info],
              troca |-> amb.troca, salvar |-> IF s.ok THEN "ok" ELSE "falhou",
              resultado |-> TRUE]
    ELSE [login |-> r, troca |-> amb.troca, salvar |-> "nao", resultado |-> FALSE]

\* profile.py:124-133: the matching loop, then selecionar_por_indice for the
\* profile found
CasarESelecionar ==
    /\ UNCHANGED <<varsLote, varsEtiqueta, varsProntos>>
    /\ passo = "casar"
    /\ passo' = "ocioso"
    /\ nome_pedido' = <<>>
    /\ ultimo_pedido' = <<>>
    /\ \E index \in {perfil_por_nome(nome_pedido[1].nome, perfis, 1)} :
         IF index = Nenhum
         THEN /\ ultima_selecao' = <<Selecao(nome_pedido[1].nome, Nenhum, jar.id, "nao",
                                             nome_pedido[1].listar, "nao",
                                             "nao", FALSE)>>
              /\ UNCHANGED <<varsAuth, contexto_de>>
         ELSE \E amb \in AmbientesDeSessao :
                /\ amb.login.handshake = "aceito" => abertas < MaxSessoes
                /\ \E r \in {ensure_logged_in(amb.rede, amb.login)} :
                   \E troca \in AmbientesDeTroca(r) :
                   \E s \in {selecionar_por_indice(index, r, troca)} :
                     /\ Apos([s.login EXCEPT !.salvar =
                                IF s.salvar # "nao" THEN s.salvar ELSE r.salvar])
                     /\ contexto_de' = IF s.troca = "feita"
                                       THEN [contexto_de EXCEPT ![r.jar.id] = index]
                                       ELSE contexto_de
                     /\ ultima_selecao' = <<Selecao(nome_pedido[1].nome, index, r.jar.id,
                                                    s.troca, nome_pedido[1].listar,
                                                    r.salvar, s.salvar, s.resultado)>>
    /\ UNCHANGED perfis

\* a request of one of the services: the session it goes out under and the
\* one active before the call, the profile the portal has selected for each,
\* and whether the portal accepts the session
Pedido(tipo, cookies, cookies_antes, aceitas) ==
    [tipo |-> tipo, sessao |-> cookies.id, sessao_antes |-> cookies_antes.id,
     contexto |-> contexto(cookies), contexto_antes |-> contexto(cookies_antes),
     aceito |-> cookies.id \in aceitas]

\* task.py:30-63, called by client.py:84-86: the task list is requested
\* under the session ensure_logged_in leaves
ListarTarefas ==
    /\ UNCHANGED <<varsLote, varsEtiqueta, varsProntos>>
    /\ passo = "ocioso"
    /\ ultima_selecao' = <<>>
    /\ \E amb \in AmbientesDeSessao :
         /\ amb.login.handshake = "aceito" => abertas < MaxSessoes
         /\ \E r \in {ensure_logged_in(amb.rede, amb.login)} :
              /\ Apos(r)
              /\ ultimo_pedido' = IF r.resultado
                                  THEN <<Pedido("tarefas", r.jar, jar, r.vivas)>>
                                  ELSE <<>>
    /\ UNCHANGED <<perfis, passo, nome_pedido, contexto_de>>

\* download.py:59-73, the first request of solicitar_download: it goes out
\* under the active session as it is
GerarChaveAcesso ==
    /\ UNCHANGED <<varsLote, varsEtiqueta, varsProntos, varsAuth>>
    /\ passo = "ocioso"
    /\ ultima_selecao' = <<>>
    /\ ultimo_pedido' = <<Pedido("chave_acesso", jar, jar, vivas)>>
    /\ UNCHANGED <<perfis, passo, nome_pedido, contexto_de>>

\* download.py:356-371, the first request of baixar_arquivo: it goes out
\* under the active session as it is
ObterUrlDownload ==
    /\ UNCHANGED <<varsLote, varsEtiqueta, varsProntos, varsAuth>>
    /\ passo = "ocioso"
    /\ ultima_selecao' = <<>>
    /\ ultimo_pedido' = <<Pedido("url_download", jar, jar, vivas)>>
    /\ UNCHANGED <<perfis, passo, nome_pedido, contexto_de>>

\* download.py:327-354: the probe when no user is at hand, its result not
\* looked at, then the listing under the active session as it is
ListarDisponiveis ==
    /\ UNCHANGED <<varsLote, varsEtiqueta, varsProntos>>
    /\ passo = "ocioso"
    /\ ultima_selecao' = <<>>
    /\ \E rede \in IF usuario THEN {FALSE} ELSE BOOLEAN :
         Apos(IF usuario THEN SoSonda(TRUE)
              ELSE SoSonda(verificar_sessao(jar, vivas, rede)))
    /\ ultimo_pedido' = <<Pedido("downloads_disponiveis", jar, jar, vivas)>>
    /\ UNCHANGED <<perfis, passo, nome_pedido, contexto_de>>

NextPerfil ==
    \/ IniciarSelecao
    \/ CasarESelecionar
    \/ ListarTarefas
    \/ GerarChaveAcesso
    \/ ListarDisponiveis
    \/ ObterUrlDownload
    \/ PortalExpira

(***************************************************************************)
(* The poller of the endpoint script, aguardar_downloads_prontos            *)
(***************************************************************************)
\* downloadProcessTaskEndpoint.py:1630: tempo_maximo=tempo_espera * 10
tempo_maximo_de(te) == te * 10

\* downloadProcessTaskEndpoint.py:1632: tempo_minimo_inicial=min(15, tempo_espera)
tempo_minimo_inicial_de(te) == IF te < EsperaInicialMax THEN te ELSE EsperaInicialMax

\* downloadProcessTaskEndpoint.py:1488: tempo_sem_novos >= 60 and quantidade_atual > 0
SemNovosDemais(t, q) == t >= JanelaSemNovos /\ q > 0

\* What listar_downloads_disponiveis returns to the poller: how many downloads
\* the area of the user lists and how many of them name no case of this task
\* (left there by another batch of the same user)
ListagensProntos ==
    {[quantos |-> q, alheios |-> a] : q \in 0..MaxProntos, a \in 0..1} \
    {[quantos |-> 0, alheios |-> 1]}

\* the return of aguardar_downloads_prontos: the listing as it is
Retornou(por, lista) ==
    [por |-> por, quantos |-> lista.quantos, alheios |-> lista.alheios]

InitProntos ==
    /\ onde = "fora"
    /\ quantidade_esperada = 0
    /\ tempo_espera = 0
    /\ tempo_decorrido = 0
    /\ downloads_anteriores = 0
    /\ tempo_sem_novos = 0
    /\ listagens = 0
    /\ retorno = <<>>
    /\ buscados = <<>>

\* downloadProcessTaskEndpoint.py:1626-1633: the call, made when at least one
\* download was requested
ChamarProntos ==
    /\ onde \in {"fora", "baixou"}
    /\ \E q \in 1..MaxProntos, te \in 1..MaxTempoBase :
         /\ quantidade_esperada' = q
         /\ tempo_espera' = te
    /\ onde' = "espera_inicial"
    /\ tempo_decorrido' = 0
    /\ downloads_anteriores' = 0
    /\ tempo_sem_novos' = 0
    /\ listagens' = 0
    /\ retorno' = <<>>
    /\ buscados' = <<>>
    /\ UNCHANGED <<varsLote, varsAuth, varsEtiqueta, varsPerfil>>

\* downloadProcessTaskEndpoint.py:1461-1466: time.sleep(tempo_minimo_inicial)
\* returns and the locals are set
EsperaInicialProntos ==
    /\ onde = "espera_inicial"
    /\ onde' = "laco"
    /\ tempo_decorrido' = tempo_minimo_inicial_de(tempo_espera)
    /\ downloads_anteriores' = 0
    /\ tempo_sem_novos' = 0
    /\ UNCHANGED <<quantidade_esperada, tempo_espera, listagens, retorno, buscados>>
    /\ UNCHANGED <<varsLote, varsAuth, varsEtiqueta, varsPerfil>>

\* downloadProcessTaskEndpoint.py:1468-1495: one pass of the loop, with the
\* listing it makes and the sleep that ends it
VerificarProntos ==
    /\ onde = "laco"
    /\ tempo_decorrido < tempo_maximo_de(tempo_espera)
    /\ listagens' = listagens + 1
    /\ \E lista \in ListagensProntos :
         \E quantidade_atual \in {lista.quantos},
            sem \in {IF lista.quantos > downloads_anteriores THEN 0
                     ELSE tempo_sem_novos + IntervaloVerificacao} :
           IF quantidade_atual >= quantidade_esperada
           THEN /\ onde' = "retornou"
                /\ retorno' = <<Retornou("todos", lista)>>
                /\ UNCHANGED <<tempo_decorrido, downloads_anteriores,
                               tempo_sem_novos>>
           ELSE /\ tempo_sem_novos' = sem
                /\ downloads_anteriores' = quantidade_atual
                /\ IF SemNovosDemais(sem, quantidade_atual)
                   THEN /\ onde' = "retornou"
                        /\ retorno' = <<Retornou("sem_novos", lista)>>
                        /\ UNCHANGED tempo_decorrido
                   ELSE /\ tempo_decorrido' =
                               tempo_decorrido + IntervaloVerificacao
                        /\ UNCHANGED <<onde, retorno>>
    /\ UNCHANGED <<quantidade_esperada, tempo_espera, buscados>>
    /\ UNCHANGED <<varsLote, varsAuth, varsEtiqueta, varsPerfil>>

\* downloadProcessTaskEndpoint.py:1497-1498: the loop condition fails and the
\* call returns what one more listing gives
EsgotarProntos ==
    /\ onde = "laco"
    /\ ~(tempo_decorrido < tempo_maximo_de(tempo_espera))
    /\ listagens' = listagens + 1
    /\ \E lista \in ListagensProntos :
         retorno' = <<Retornou("tempo", lista)>>
    /\ onde' = "retornou"
    /\ UNCHANGED <<quantidade_esperada, tempo_espera, tempo_decorrido,
                   downloads_anteriores, tempo_sem_novos, buscados>>
    /\ UNCHANGED <<varsLote, varsAuth, varsEtiqueta, varsPerfil>>

\* downloadProcessTaskEndpoint.py:1636-1642: the fetch loop: every download
\* the poller returned is handed to baixar_arquivo
BaixarProntos ==
    /\ onde = "retornou"
    /\ onde' = "baixou"
    /\ buscados' = <<[quantos |-> retorno[1].quantos,
                      alheios |-> retorno[1].alheios]>>
    /\ UNCHANGED <<quantidade_esperada, tempo_espera, tempo_decorrido,
                   downloads_anteriores, tempo_sem_novos, listagens, retorno>>
    /\ UNCHANGED <<varsLote, varsAuth, varsEtiqueta, varsPerfil>>

NextProntos ==
    \/ ChamarProntos
    \/ EsperaInicialProntos
    \/ VerificarProntos
    \/ EsgotarProntos
    \/ BaixarProntos

vars == <<varsLote, varsAuth, varsEtiqueta, varsPerfil, varsProntos>>

Init == InitLote /\ InitAuth /\ InitEtiqueta /\ InitPerfil /\ InitProntos
Next == NextLote
\* one batch after another
Spec == Init /\ [][Next]_vars
\* logins, clears, restarts, the clock and the portal
SpecAuth == Init /\ [][NextAuth]_vars
\* one batch after another in which the poller goes on: listar_disponiveis
\* returns (its request has a timeout), time.sleep returns and the loop
\* condition is evaluated again
SpecJusta == Spec /\ WF_vars(CicloPoll) /\ WF_vars(EsgotarEspera)
\* one tag batch of the browser client
SpecEtiqueta == Init /\ [][NextEtiqueta]_vars
\* the services over one AuthService, and the portal
SpecPerfil == Init /\ [][NextPerfil]_vars
\* one call after another of the endpoint script's poller
SpecProntos == Init /\ [][NextProntos]_vars

(***************************************************************************)
(* What the report records about a case number                             *)
(***************************************************************************)
\* a direct download of p is listed in relatorio["arquivos"]
BaixadoDireto(p) == ArquivoDireto(p) \in Range(relatorio.arquivos)
\* a fetched pickup item that claimed p is listed in relatorio["arquivos"]
BaixadoArea(p) ==
    \E a \in Range(relatorio.arquivos) : a.tipo = "area" /\ a.ref \in reivindicado[p]
\* p is listed in relatorio["falhas"]
Rejeitado(p) == p \in Range(relatorio.falhas)

\* how many artifacts the report lists for p: the times p became DOWNLOADED
EhArquivoDe(p, a) ==
    \/ a = ArquivoDireto(p)
    \/ a.tipo = "area" /\ a.ref \in reivindicado[p]
VezesBaixado(p) == Cardinality({k \in DOMAIN relatorio.arquivos :
                                   EhArquivoDe(p, relatorio.arquivos[k])})
VezesRejeitado(p) == Cardinality({k \in DOMAIN relatorio.falhas :
                                    relatorio.falhas[k] = p})

\* The ledger state of p as far as the batch records one. The report has no
\* entry for a queued case number that was never matched, nor for one whose
\* pickup item could not be fetched.
Estado(p) ==
    IF BaixadoDireto(p) \/ BaixadoArea(p) THEN "DOWNLOADED"
    ELSE IF Rejeitado(p) THEN "REJECTED"
    ELSE IF p \in Range(processos_para_area) THEN "QUEUED"
    ELSE "PENDING"

\* the list names no case number twice
SemRepeticao(lista) ==
    \A a \in DOMAIN lista : \A b \in DOMAIN lista : a # b => lista[a] # lista[b]

Terminais == {"DOWNLOADED", "NOT_FOUND", "REJECTED", "FETCH_FAILED"}

\* index of the first occurrence of a download covering p in a listing, 0 if none
PrimeiroQueCobre(lista, p) ==
    IF \E k \in DOMAIN lista : p \in get_numeros_processos(lista[k])
    THEN CHOOSE k \in DOMAIN lista :
            /\ p \in get_numeros_processos(lista[k])
            /\ \A m \in 1..(k - 1) : p \notin get_numeros_processos(lista[m])
    ELSE 0

(***************************************************************************)
(* C1. After a batch that reached the submission loop, every case number   *)
(* of the batch has exactly one terminal outcome and is listed exactly     *)
(* once in the final report; none is left PENDING or QUEUED.               *)
(* Stated as claimed, for a batch that waits for the pickup area           *)
(* (aguardar=True) and whose list names every case number once;            *)
(* processar_tarefa does not satisfy it.                                   *)
(***************************************************************************)
C1_TodosTerminais ==
    (pc = "fim" /\ processos # <<>> /\ aguardar /\ SemRepeticao(processos)) =>
        \A p \in Range(processos) :
            /\ Estado(p) \in Terminais
            /\ VezesBaixado(p) + VezesRejeitado(p) = 1

(***************************************************************************)
(* C2. Within one batch a case number becomes DOWNLOADED at most once: one *)
(* settled by the direct path or by an earlier pickup match is ignored by  *)
(* every later pickup match.                                               *)
(* Stated as claimed; a list naming a case number twice breaks it.         *)
(***************************************************************************)
C2_BaixadoNoMaximoUmaVez ==
    \A p \in Numeros : VezesBaixado(p) <= 1

(***************************************************************************)
(* C3. A pickup item observed again, in a later poll cycle or twice in one *)
(* listing, is not scheduled again: each pickup artifact is in downloads   *)
(* at most once, is fetched at most once and is counted at most once in    *)
(* the completed downloads.                                                *)
(***************************************************************************)
C3_ArtefatoUmaVez ==
    \A d \in Catalogo \cup CatalogoA :
        /\ Cardinality({k \in DOMAIN downloads : downloads[k].hash = d.hash}) <= 1
        /\ Cardinality({k \in DOMAIN relatorio.arquivos :
                           relatorio.arquivos[k] = ArquivoArea(d)}) <= 1
        /\ pc = "fim" => relatorio.downloads_concluidos = Len(relatorio.arquivos)

\* the artifact scheduled in an earlier cycle is listed again, in another
\* situacao, next to a new one that is scheduled in this cycle
C3_Witness ==
    /\ pc = "baixar"
    /\ Len(disponiveis) = 2 /\ Len(downloads) = 2
    /\ disponiveis[1] = downloads[2]
    /\ disponiveis[2].hash = downloads[1].hash
    /\ disponiveis[2] # downloads[1]

(***************************************************************************)
(* C4. Fan-in: when a pickup item covering two case numbers is observed    *)
(* while both are still queued, both are claimed in that poll cycle, by    *)
(* that item, and the item is scheduled for fetch exactly once.            *)
(***************************************************************************)
C4_FanIn ==
    [][ (pc = "poll" /\ disponiveis' # <<>>) =>
          \A k \in DOMAIN disponiveis' :
            LET d == disponiveis'[k]
                fila == (get_numeros_processos(d) \cap Range(processos_para_area))
                            \ encontrados
            IN  (/\ Cardinality(fila) >= 2
                 /\ \A p \in fila : PrimeiroQueCobre(disponiveis', p) = k)
                => /\ fila \subseteq encontrados'
                   /\ \A p \in fila : reivindicado'[p] = {d.hash}
                   /\ Cardinality({m \in DOMAIN downloads' : downloads'[m] = d}) = 1
      ]_vars

\* the item covering A and B has claimed both in the cycle just completed
C4_Witness ==
    /\ pc = "baixar"
    /\ \E d \in Range(disponiveis) :
         /\ get_numeros_processos(d) = {"A", "B"}
         /\ reivindicado["A"] = {d.hash}
         /\ reivindicado["B"] = {d.hash}
         /\ d \in Range(downloads)

(***************************************************************************)
(* C5. First match wins: a queued case number covered by two different     *)
(* pickup items, in one listing or in different poll cycles, is claimed by *)
(* the first one encountered and by no other; its claim never changes.     *)
(***************************************************************************)
C5_PrimeiroGanha ==
    [][ \A p \in Numeros :
          /\ Cardinality(reivindicado'[p]) <= 1
          /\ (pc = "poll" /\ reivindicado[p] # {}) => reivindicado'[p] = reivindicado[p]
          /\ (pc = "poll" /\ reivindicado[p] = {} /\ reivindicado'[p] # {})
                => /\ PrimeiroQueCobre(disponiveis', p) # 0
                   /\ reivindicado'[p] =
                        {disponiveis'[PrimeiroQueCobre(disponiveis', p)].hash}
      ]_vars

\* two different items covering A were listed; A belongs to the first only,
\* the second one was scheduled for B alone
C5_Witness ==
    /\ Len(disponiveis) = 2
    /\ disponiveis[1] # disponiveis[2]
    /\ "A" \in get_numeros_processos(disponiveis[1])
    /\ "A" \in get_numeros_processos(disponiveis[2])
    /\ reivindicado["A"] = {disponiveis[1].hash}
    /\ reivindicado["B"] = {disponiveis[2].hash}

(***************************************************************************)
(* C8. A deferred request whose case number no pickup item covers within   *)
(* the wait budget ends the batch NOT_FOUND: the poller returns without it *)
(* and the caller marks it.                                                *)
(* Stated as claimed; processar_tarefa records nothing for it.             *)
(***************************************************************************)
C8_NaoEncontrado ==
    (pc = "fim" /\ aguardar) =>
        \A p \in Range(processos_para_area) :
            (p \notin encontrados /\ ~BaixadoDireto(p) /\ ~Rejeitado(p))
                => Estado(p) = "NOT_FOUND"

(***************************************************************************)
(* C9. Every HTTP-200 reply to the retrieval form is classified as exactly *)
(* one of Direct, Deferred, Rejected, and it is Rejected, with a failed    *)
(* entry at the submit stage, exactly when the reply carries neither the   *)
(* direct-generation phrase nor a deferred-availability phrase.            *)
(***************************************************************************)
Classe(r) ==
    {c \in {"Direct", "Deferred", "Rejected"} :
        \/ c = "Direct" /\ r.sucesso /\ r.tipo_download = "direto" /\ r.arquivo
        \/ c = "Deferred" /\ r.sucesso /\ r.tipo_download = "area_download" /\ ~r.arquivo
        \/ c = "Rejected" /\ ~r.sucesso /\ r.tipo_download = "nenhum" /\ ~r.arquivo}

RespostaHttp200(amb) ==
    amb.chave /\ amb.pagina /\ amb.viewstate /\ amb.botao /\ amb.post = "ok"

C9_Classificacao ==
    \A k \in DOMAIN ultima :
        LET u == ultima[k]
            frase_direta == {"esta sendo gerado", "aguarde"} \subseteq u.amb.texto
            frase_area == u.amb.texto \cap {"sera disponibilizado", "area de download"} # {}
        IN  RespostaHttp200(u.amb) =>
              /\ Cardinality(Classe(u.retorno)) = 1
              /\ ("Rejected" \in Classe(u.retorno)) <=> (~frase_direta /\ ~frase_area)
              /\ ("Rejected" \in Classe(u.retorno)) =>
                    /\ diagnosticos[Len(diagnosticos)] = Diag(u.numero, "solicitar", FALSE)
                    /\ relatorio.falhas[Len(relatorio.falhas)] = u.numero

\* a 200 reply carrying only half of the direct phrase was rejected
C9_Witness ==
    /\ ultima # <<>>
    /\ RespostaHttp200(ultima[1].amb)
    /\ ultima[1].amb.texto = {"aguarde"}
    /\ Classe(ultima[1].retorno) = {"Rejected"}

(***************************************************************************)
(* C10. Every failing step of solicitar_download (no access key, page not  *)
(* opened, no view state, no download control, non-200 reply, exception    *)
(* during the post) appends exactly one failed entry, naming that stage,   *)
(* after the successful entries of the earlier stages, and the call        *)
(* returns a failure.                                                      *)
(***************************************************************************)
EtapaQueFalha(amb) ==
    IF ~amb.chave THEN "chave_acesso"
    ELSE IF ~amb.pagina THEN "abrir_processo"
    ELSE IF ~amb.viewstate THEN "viewstate"
    ELSE IF ~amb.botao THEN "botao"
    ELSE IF amb.post # "ok" THEN "solicitar"
    ELSE "nenhuma"

C10_FalhaDeEtapa ==
    \A k \in DOMAIN ultima :
        LET u == ultima[k]
            n == Len(u.retorno.diags)
            total == Len(diagnosticos)
        IN  EtapaQueFalha(u.amb) # "nenhuma" =>
              /\ Classe(u.retorno) = {"Rejected"}
              /\ n >= 1 /\ total >= n
              /\ SubSeq(diagnosticos, total - n + 1, total) = u.retorno.diags
              /\ u.retorno.diags[n] = Diag(u.numero, EtapaQueFalha(u.amb), FALSE)
              /\ \A m \in 1..(n - 1) : u.retorno.diags[m].sucesso
              /\ \A m \in 1..n : u.retorno.diags[m].numero_processo = u.numero

\* the page was opened but carried no view state
C10_Witness ==
    /\ ultima # <<>>
    /\ EtapaQueFalha(ultima[1].amb) = "viewstate"
    /\ diagnosticos[Len(diagnosticos)] = Diag(ultima[1].numero, "viewstate", FALSE)

(***************************************************************************)
(* C6. Session reuse: login with force=False, credentials at hand, a saved *)
(* session younger than the maximum age and readable cookies: unless the   *)
(* session in memory already passes the probe, the saved session is loaded *)
(* and probed, and when that probe succeeds login returns success with the *)
(* saved session cookie in the jar, having fetched no login page and       *)
(* posted no credentials.                                                  *)
(***************************************************************************)
SessaoJovem(u) ==
    /\ ~u.forcar /\ u.credenciais
    /\ u.info_antes.estado = "ok"
    /\ agora - u.info_antes.valor < MaxAgeHours
    /\ u.cookies_antes.estado = "ok"

C6_ReusoDeSessao ==
    \A k \in DOMAIN ultimo_login :
        LET u == ultimo_login[k]
        IN  SessaoJovem(u) =>
              /\ u.sonda_ativa # "ok" => u.sonda_restaurada # "nao"
              /\ u.sonda_restaurada = "ok" =>
                    /\ u.resultado
                    /\ u.gets = 0 /\ u.posts = 0
                    /\ jar.id = u.cookies_antes.valor.id
                    /\ usuario
                    /\ session_info_file = u.info_antes
                    /\ cookies_file = u.cookies_antes

\* a new process restored the session saved one clock unit earlier
C6_Witness ==
    /\ ultimo_login # <<>>
    /\ SessaoJovem(ultimo_login[1])
    /\ agora - ultimo_login[1].info_antes.valor = 1
    /\ ultimo_login[1].sonda_ativa = "falhou"
    /\ ultimo_login[1].sonda_restaurada = "ok"
    /\ ultimo_login[1].resultado
    /\ ultimo_login[1].gets = 0

(***************************************************************************)
(* C7. Session expiry: login with force=False and a saved session older    *)
(* than the maximum age performs the full handshake (login page fetched,   *)
(* credentials posted) and overwrites the saved session with a newer       *)
(* capture timestamp.                                                      *)
(* Stated as claimed, for a login that returns success and whose save     *)
(* does not fail; a session in memory that still passes the probe breaks   *)
(* it (so do, left aside here, a handshake or a save that fails).          *)
(***************************************************************************)
SessaoVelha(u) ==
    /\ ~u.forcar /\ u.credenciais
    /\ u.info_antes.estado = "ok"
    /\ agora - u.info_antes.valor > MaxAgeHours

TodosSubmetidos ==
    relatorio.solicitacoes_sucesso + relatorio.solicitacoes_falha = Len(processos)

C11_FalhaNaoAborta ==
    (pc = "fim" /\ processos # <<>> /\ aguardar) =>
        /\ TodosSubmetidos
        /\ \A p \in Range(processos) :
              ~(BaixadoDireto(p) \/ BaixadoArea(p)) =>
                  Estado(p) \in {"NOT_FOUND", "REJECTED", "FETCH_FAILED"}

(***************************************************************************)
(* C12. If authentication cannot be established (every ensure_logged_in    *)
(* of the prelude fails), the batch aborts early: it ends before the       *)
(* submission loop with an empty process list, no retrieval request is     *)
(* submitted, no pickup-area poll is made and no artifact is fetched.      *)
(***************************************************************************)
C12_SemSessaoAborta ==
    \A k \in DOMAIN preludio :
        ~preludio[k].autenticado =>
            /\ pc \in {"listar", "fim"}
            /\ processos = <<>>
            /\ diagnosticos = <<>> /\ downloads_solicitados = {} /\ ultima = <<>>
            /\ processos_para_area = <<>>
            /\ decorrido = 0 /\ disponiveis = <<>> /\ encontrados = {}
            /\ downloads = <<>> /\ j = 1
            /\ relatorio.solicitacoes_sucesso = 0 /\ relatorio.solicitacoes_falha = 0
            /\ relatorio.arquivos = <<>>

\* without a session the task was found in the cached list, and the batch
\* ended at the process listing
C12_Witness ==
    /\ preludio # <<>>
    /\ ~preludio[1].autenticado
    /\ preludio[1].tarefas_cache /\ preludio[1].tarefa
    /\ pc = "fim"
    /\ relatorio.erro = ""
    /\ relatorio.processos_encontrados = 0

(***************************************************************************)
(* C13. On the handshake path of login the result is success exactly when  *)
(* the probe made after the credential submission succeeds; on success the *)
(* new session is persisted before login returns, and on probe failure     *)
(* login fails and nothing is persisted.                                   *)
(* Stated as claimed; a save that fails breaks the persistence on success. *)
(***************************************************************************)
\* the login call went down the handshake path
CaminhoHandshake(u) == u.gets = 1

\* the two files as the handshake found them (force=True clears them first)
InfoNaEntrada(u) == IF u.forcar THEN Ausente ELSE u.info_antes
CookiesNaEntrada(u) == IF u.forcar THEN Ausente ELSE u.cookies_antes

Idades == 1..(MaxAgora + 1)

\* a saved session exists: its capture record is in place and readable
SessaoSalva == session_info_file.estado = "ok"

ValidaPeloContrato(max_age_hours) ==
    SessaoSalva /\ (agora - session_info_file.valor) < max_age_hours

C14_Validade ==
    \A m \in Idades :
        /\ is_valid(session_info_file, agora, m) <=> ValidaPeloContrato(m)
        /\ is_session_valid(session_info_file, agora, m) <=> ValidaPeloContrato(m)
        /\ cookies_file.estado = "ausente" =>
              /\ ~is_valid(session_info_file, agora, m)
              /\ ~is_session_valid(session_info_file, agora, m)

(***************************************************************************)
(* C15. After a save that succeeds, load returns exactly the bundle of the *)
(* most recent save: the earlier entry is overwritten and nothing else is  *)
(* mixed in, whatever the age of the saved session; load reports absent    *)
(* only when no readable record exists.  Stated for the save and for the   *)
(* load a login has just made: after a restore that passed the probe the   *)
(* session holds the saved bundle and nothing else.                        *)
(***************************************************************************)
C15_LoadDevolveOSalvo ==
    /\ \A k \in DOMAIN ultimo_login :
          LET u == ultimo_login[k]
          IN  /\ u.salvar = "ok" => cookies_file = Arquivo(jar)
              /\ u.sonda_restaurada = "ok" => jar = u.cookies_antes.valor
    /\ load(cookies_file, jar).ok <=> cookies_file.estado = "ok"

(***************************************************************************)
(* C16. After clear() the persisted session is entirely gone: is_valid is  *)
(* false for every maxAge, load reports absent, and the next login cannot  *)
(* succeed by restoring a persisted session: it succeeds only on the       *)
(* session already active or through the handshake.                        *)
(***************************************************************************)
C16_DepoisDeClear ==
    /\ limpou # "nao" =>
          /\ cookies_file = Ausente
          /\ session_info_file = Ausente
          /\ \A m \in Idades : ~is_valid(session_info_file, agora, m)
          /\ ~load(cookies_file, jar).ok
    /\ \A k \in DOMAIN ultimo_login :
          LET u == ultimo_login[k]
          IN  u.limpou # "nao" =>
                /\ u.sonda_restaurada = "nao"
                /\ u.resultado =>
                      \/ u.sonda_ativa = "ok"
                      \/ u.gets = 1 /\ u.posts = 1 /\ u.sonda_final = "ok"

\* a session was saved and cleared, the portal still accepts it, and the
\* login that followed in a new process went through the handshake
C16_Witness ==
    /\ ultimo_login # <<>>
    /\ ultimo_login[1].limpou = "sessao"
    /\ ~ultimo_login[1].forcar
    /\ ultimo_login[1].jar_antes = JarVazio
    /\ ultimo_login[1].resultado
    /\ ultimo_login[1].gets = 1
    /\ 1 \in vivas
    /\ jar.id = 2

(***************************************************************************)
(* C17. End-to-end scenario A: three case records, the first classified    *)
(* Direct, the second and third Deferred; the poller matches a pickup item *)
(* covering the second and then, in a later cycle, one covering the third; *)
(* both are fetched.  The final states are DOWNLOADED, DOWNLOADED,         *)
(* DOWNLOADED and the diagnostics trail holds exactly 3 submit entries and *)
(* exactly 2 poll-match entries, one per deferred case.                    *)
(* Stated as claimed; aguardar_downloads appends nothing to the trail.     *)
(***************************************************************************)
\* the submissions and the matches went as the scenario says
CenarioASubmetido ==
    /\ processos = CenarioA
    /\ aguardar
    /\ BaixadoDireto("A")
    /\ processos_para_area = <<"B", Terceiro>>
CenarioACasado ==
    /\ CenarioASubmetido
    /\ downloads = <<ItemDe("B"), ItemDe(Terceiro)>>
    /\ reivindicado["B"] = {ItemDe("B").hash}
    /\ reivindicado[Terceiro] = {ItemDe(Terceiro).hash}

\* the poller has just returned: its last cycle listed the item of the third
\* record alone, so the item of the second was matched in an earlier cycle
CenarioANaVoltaDoPoller ==
    /\ CenarioACasado
    /\ pc = "baixar" /\ j = 1
    /\ disponiveis = <<ItemDe(Terceiro)>>

\* the batch is over and both pickup items were fetched
CenarioANoFim ==
    /\ CenarioACasado
    /\ pc = "fim"
    /\ ArquivoArea(ItemDe("B")) \in Range(relatorio.arquivos)
    /\ ArquivoArea(ItemDe(Terceiro)) \in Range(relatorio.arquivos)

\* the stages of solicitar_download; "solicitar" is the submission itself
EtapasDeSolicitar == {"chave_acesso", "abrir_processo", "viewstate", "botao", "solicitar"}

\* the entries of the trail written for the submission of a case record
EntradasDeSubmissao ==
    {k \in DOMAIN diagnosticos : diagnosticos[k].etapa = "solicitar"}
\* the entries of the trail written by a stage after the submission of p
EntradasDeCasamento(p) ==
    {k \in DOMAIN diagnosticos :
        /\ diagnosticos[k].numero_processo = p
        /\ diagnosticos[k].etapa \notin EtapasDeSolicitar}

\* what the scenario expects of the trail
TrilhaDoCenarioA ==
    /\ Cardinality(EntradasDeSubmissao) = 3
    /\ \A p \in {"B", Terceiro} : Cardinality(EntradasDeCasamento(p)) = 1

C17_CenarioA ==
    /\ CenarioANaVoltaDoPoller => TrilhaDoCenarioA
    /\ CenarioANoFim =>
          /\ \A p \in Range(processos) : Estado(p) = "DOWNLOADED"
          /\ TrilhaDoCenarioA

(***************************************************************************)
(* C18. When a pickup item was matched but its transfer fails, every case  *)
(* number it satisfied ends in FETCH_FAILED: recorded, not counted as      *)
(* downloaded and not left queued; the failure is not fatal, the remaining *)
(* matched pickup items are still fetched.                                 *)
(* Stated as claimed; the fetch loop records nothing for a failed fetch.   *)
(***************************************************************************)
\* the fetch of downloads[k] was tried and returned no file
TransferenciaFalhou(k) ==
    /\ k < j
    /\ ArquivoArea(downloads[k]) \notin Range(relatorio.arquivos)

\* the case numbers downloads[k] was scheduled for
Satisfeitos(k) ==
    {p \in Range(processos_para_area) : downloads[k].hash \in reivindicado[p]}

\* the batch holds a record of the failed fetch of p: an entry of the report's
\* failures or an entry of the trail written after the submission
FalhaRegistrada(p) ==
    p \in Range(relatorio.falhas) \/ EntradasDeCasamento(p) # {}

C18_FalhaDeTransferencia ==
    (pc = "fim" /\ aguardar) =>
        \A k \in DOMAIN downloads :
            /\ k < j
            /\ TransferenciaFalhou(k) =>
                  \A p \in Satisfeitos(k) :
                      /\ ~BaixadoArea(p)
                      /\ FalhaRegistrada(p)

(***************************************************************************)
(* C19. Per-case monotonicity: once the outcome recorded for a case is     *)
(* terminal (DOWNLOADED, NOT_FOUND, REJECTED, FETCH_FAILED) no later step  *)
(* of the batch changes it; a case already downloaded through the direct   *)
(* path is never afterwards re-marked, for example as not found in the     *)
(* pickup area.  Stated as claimed, for the report of the tag batch.       *)
(***************************************************************************)
\* the outcome a statusDownload stands for; "area_download" is not terminal
EstadoDoStatus(statusDownload) ==
    IF statusDownload \in {"direto", "baixado_area_download"} THEN "DOWNLOADED"
    ELSE IF statusDownload = "nao_encontrado_area_download" THEN "NOT_FOUND"
    ELSE IF statusDownload \in {"sem_documento", "erro"} THEN "REJECTED"
    ELSE "QUEUED"

C19_Monotonia ==
    [][ \A k \in DOMAIN processosAnalisados :
          EstadoDoStatus(processosAnalisados[k].statusDownload) \in Terminais
            => processosAnalisados'[k] = processosAnalisados[k] ]_vars

(***************************************************************************)
(* C20. A rejected submission is terminal and never retried automatically: *)
(* each case record is submitted at most once per batch, and a rejected    *)
(* case number is never added to the set polled in the pickup area and is  *)
(* never fetched.  Stated as claimed; a list naming a case number twice    *)
(* breaks it.                                                              *)
(***************************************************************************)
\* the submissions made so far in the batch
Submissoes == relatorio.solicitacoes_sucesso + relatorio.solicitacoes_falha

C20_RejeitadoNaoRepete ==
    /\ pc \in {"laco", "espera", "poll", "baixar", "final", "fim"} =>
          /\ Submissoes <= Len(processos)
          /\ pc # "fim" => Submissoes = i - 1
    /\ \A p \in Numeros :
          Rejeitado(p) =>
              /\ VezesRejeitado(p) = 1
              /\ p \notin Range(processos_para_area)
              /\ p \notin encontrados
              /\ VezesBaixado(p) = 0

(***************************************************************************)
(* Claims about the profile selection                                      *)
(***************************************************************************)
\* the listed profile with this index
PerfilDeIndice(index) == perfis[CHOOSE k \in 1..Len(perfis) : perfis[k].index = index]

\* how a listed profile stands to the name asked for
NomeIgual(nome, perfil) == lower(perfil.nome_completo) = lower(nome)
NomeContido(nome, perfil) == contem(lower(nome), lower(perfil.nome_completo))
AcimaDoLimiar(nome, perfil) ==
    MaiorOuIgual(calcular_similaridade(nome, perfil.nome_completo), Threshold)

\* C21: the name asked for is resolved in strict priority order. When a
\* listed profile equals the name, the profile chosen equals it, wherever a
\* profile that merely contains the name stands in the list; when a listed
\* profile contains the name, the profile chosen contains it; and a profile
\* that does not contain the name is chosen only with a similarity score at
\* or above the threshold.
C21_PrioridadeDeNomes ==
    (passo = "ocioso" /\ ultima_selecao # <<>>) =>
        LET u == ultima_selecao[1]
            lista == {perfis[k] : k \in 1..Len(perfis)}
        IN  /\ (\E p \in lista : NomeIgual(u.nome, p)) =>
                   /\ u.indice # Nenhum
                   /\ NomeIgual(u.nome, PerfilDeIndice(u.indice))
            /\ (\E p \in lista : NomeContido(u.nome, p)) =>
                   /\ u.indice # Nenhum
                   /\ NomeContido(u.nome, PerfilDeIndice(u.indice))
            /\ (u.indice # Nenhum /\ ~NomeContido(u.nome, PerfilDeIndice(u.indice))) =>
                   AcimaDoLimiar(u.nome, PerfilDeIndice(u.indice))

\* no listed profile matches the name: none contains it (so none equals it)
\* and none is similar to it at or above the threshold
NenhumCasa(nome, lista) ==
    \A k \in 1..Len(lista) :
        ~NomeContido(nome, lista[k]) /\ ~AcimaDoLimiar(nome, lista[k])

\* the persisted session is what it was
PersistidoIgual ==
    cookies_file' = cookies_file /\ session_info_file' = session_info_file

\* the matching step of a selection whose name no listed profile matches
CasaSemCandidato ==
    /\ passo = "casar"
    /\ passo' = "ocioso"
    /\ NenhumCasa(nome_pedido[1].nome, perfis)

\* the listing step of a selection whose name no listed profile matches
ListaSemCandidato ==
    /\ passo = "ocioso"
    /\ passo' = "casar"
    /\ NenhumCasa(nome_pedido'[1].nome, perfis')

\* the selection fails, no switch is requested and nothing is saved, the
\* portal keeps the profile of every session, and processar_tarefa returns
\* with the error
FalhaSemTroca ==
    /\ ultima_selecao'[1].indice = Nenhum
    /\ ultima_selecao'[1].resultado = FALSE
    /\ ultima_selecao'[1].troca = "nao"
    /\ ultima_selecao'[1].salvar = "nao"
    /\ ultima_selecao'[1].lote = "retorna_erro"
    /\ contexto_de' = contexto_de
    /\ PersistidoIgual

SobSessaoExpirada(p) == p.sessao # 0 /\ ~p.aceito

\* C23: no request is lost to an expired session. A request of a service (the
\* task list, the access key that opens a download request, the listing of
\* the download area, the URL of a file to fetch) that goes out while the
\* client holds a session the portal opened goes out under a session the
\* portal accepts: if the session had expired, the client has logged in
\* again first.
C23_ReautenticaAntesDoPedido ==
    ultimo_pedido # <<>> => ~SobSessaoExpirada(ultimo_pedido[1])

(***************************************************************************)
(* Claims about network failures during login                              *)
(***************************************************************************)
\* the login call reported failure because a request of the handshake
\* raised: the GET of the login page or the POST of the credentials
FalhaDeRede(u) ==
    /\ u.credenciais
    /\ ~u.resultado
    /\ u.excecao # "nao"

\* how many times the request that raised was sent
Tentativas(u) == IF u.excecao = "get" THEN u.gets ELSE u.posts

\* C24: a network failure during login is retried before login reports
\* failure: a login call that returns False because a request of the
\* handshake raised has sent that request at least twice.
C24_FalhaDeRedeRepetida ==
    ultimo_login # <<>> =>
        (FalhaDeRede(ultimo_login[1]) => Tentativas(ultimo_login[1]) >= 2)

(***************************************************************************)
(* Claims about the poller                                                 *)
(***************************************************************************)
\* a step in which aguardar_downloads lists the download area
Listagem == ciclos' = ciclos + 1

\* the most poll cycles that start inside tempo_maximo when each one that does
\* not return sleeps intervalo
MaxCiclos == (TempoEspera + Intervalo - 1) \div Intervalo

\* The poller of the core, DownloadService.aguardar_downloads, terminates and
\* keeps to the ceiling tempo_maximo: it makes no more listings than fit into
\* tempo_maximo at one per intervalo, it starts no listing once tempo_maximo
\* has elapsed since polling began, and whatever the download area answers it
\* comes to return.
TetoDeEsperaNoNucleo ==
    /\ [](ciclos <= MaxCiclos)
    /\ [][Listagem => decorrido < TempoEspera]_vars
    /\ (pc = "poll") ~> (pc = "baixar")

\* the poller of the core has made as many listings as fit, found nothing,
\* and the time is up
NucleoNoTeto ==
    /\ pc = "poll"
    /\ ciclos = MaxCiclos
    /\ decorrido >= TempoEspera
    /\ encontrados = {}

\* a step in which aguardar_downloads_prontos lists the download area
ListagemProntos == listagens' = listagens + 1

\* C25: the poller respects the ceiling tempo_maximo: it starts no listing of
\* the download area once tempo_maximo has elapsed since polling began. Stated
\* for aguardar_downloads_prontos, whose tempo_decorrido adds up the sleeps it
\* has made and so never runs ahead of the time that has really passed.
C25_TetoDeEspera ==
    [][ListagemProntos => tempo_decorrido < tempo_maximo_de(tempo_espera)]_vars

\* every number handed to aguardar_downloads is in encontrados when the poll
\* cycle ends
TodosReivindicados == Range(processos_para_area) \subseteq encontrados'

\* C26: aguardar_downloads returns in the first poll cycle at whose end every
\* requested number has been claimed, without sleeping or listing again,
\* whatever the list of requested numbers, one that names the same number
\* more than once included.
C26_RetornoAoCompletar ==
    [][Listagem /\ TodosReivindicados => pc' = "baixar"]_vars

\* the same for the lists that name no number twice
RetornoAoCompletarSemRepetidos ==
    [][/\ Listagem
       /\ TodosReivindicados
       /\ Cardinality(Range(processos_para_area)) = Len(processos_para_area)
       => pc' = "baixar" /\ decorrido' <= decorrido + MaxLatencia]_vars

\* a poll cycle of aguardar_downloads that ends with some numbers matched, not
\* all of them, and none of them new
CicloSemNovos ==
    /\ Listagem
    /\ encontrados # {}
    /\ encontrados' = encontrados
    /\ ~TodosReivindicados

\* C27: the poller stops waiting before tempo_maximo once no new number has
\* been matched for the stagnation window, returning the downloads matched so
\* far. The window is taken as one poll interval, scaled down as TempoEspera
\* is: a poll cycle that matched nothing new is the last one.
C27_SaidaPorEstagnacao ==
    [][CicloSemNovos => pc' = "baixar" /\ downloads' = downloads]_vars

\* aguardar_downloads_prontos has the exit: the pass that brings
\* tempo_sem_novos to the window with some download listed returns that
\* listing, before tempo_maximo
SaidaPorEstagnacaoProntos ==
    [][/\ ListagemProntos
       /\ tempo_decorrido < tempo_maximo_de(tempo_espera)
       /\ tempo_sem_novos' >= JanelaSemNovos
       /\ downloads_anteriores' > 0
       => /\ onde' = "retornou"
          /\ retorno'[1].por = "sem_novos"
          /\ retorno'[1].quantos = downloads_anteriores'
          /\ tempo_decorrido' < tempo_maximo_de(tempo_espera)]_vars

ProntosSaiuPorEstagnacao ==
    /\ retorno # <<>>
    /\ retorno[1].por = "sem_novos"

\* C28: no listing of the download area is made before the initial wait has
\* fully elapsed after polling starts: the first listing, as every other one,
\* is made when aguardar_downloads has left its initial sleep and has slept
\* all of it.
C28_EsperaInicialAntes ==
    [][Listagem => pc # "espera" /\ dormido >= EsperaInicial]_vars

\* the first listing has been made, the initial sleep behind it
C28_Witness ==
    /\ pc = "poll"
    /\ ciclos = 1
    /\ dormido = EsperaInicial
    /\ disponiveis # <<>>

\* the same for aguardar_downloads_prontos: it lists from inside its loop
\* only, its count of the time slept at tempo_minimo_inicial or more
EsperaInicialAntesProntos ==
    [][ListagemProntos
       => /\ onde = "laco"
          /\ tempo_decorrido >= tempo_minimo_inicial_de(tempo_espera)
          /\ tempo_minimo_inicial_de(tempo_espera) > 0]_vars

(***************************************************************************)
(* Claims about the session and the selected profile                       *)
(***************************************************************************)
\* the request was made under a session that a login of the same call put in
\* the place of one for which a profile had been selected
SobSessaoTrocada(p) ==
    /\ p.sessao # p.sessao_antes
    /\ p.contexto_antes # Nenhum

\* C29: when a new login replaces the authenticated session, the profile
\* selected before is cleared and no task listing or retrieval request is made
\* under the new session until a profile has been selected again.
C29_ReselecaoAposTroca ==
    ultimo_pedido # <<>> =>
        (SobSessaoTrocada(ultimo_pedido[1]) => ultimo_pedido[1].contexto # Nenhum)

\* a request made in the call whose login opened a new session goes out with
\* no profile selected for that session
PedidoSemContexto ==
    [][abertas' = abertas + 1 /\ ultimo_pedido' # <<>>
       => ultimo_pedido'[1].contexto = Nenhum]_vars

\* C30: the persisted session, cookies.pkl and the timestamp of
\* session_info.json, is written by a successful login only: the selection of
\* a profile does not call SessionManager.save of its own.
C30_SoLoginEscreve ==
    ultima_selecao # <<>> => ultima_selecao[1].salvar = "nao"

\* the same seen in the files: a selection in which no login has saved leaves
\* them as they were. It does not hold either: the save of profile.py:111 that
\* fails part-way leaves cookies.pkl unreadable.
SelecaoNaoMudaArquivos ==
    [][/\ ultima_selecao' # <<>>
       /\ ultima_selecao'[1].salvar_login = "nao"
       => cookies_file' = cookies_file /\ session_info_file' = session_info_file]_vars

(***************************************************************************)
(* Claims about the forced login and the session store                     *)
(***************************************************************************)
\* the login just made was called with force=True and credentials
Forcado(u) == u.forcar /\ u.credenciais

\* C31: login with force=True never returns success on the basis of a session
\* that was already active or persisted: it clears the persisted session and
\* always goes through the handshake, it returns True only under the session
\* this handshake opened, and when it fails no persisted session remains.
C31_LoginForcado ==
    ultimo_login # <<>> =>
        LET u == ultimo_login[1]
        IN  Forcado(u) =>
              /\ u.sonda_ativa = "nao" /\ u.sonda_restaurada = "nao"
              /\ u.gets = 1
              /\ u.resultado => jar.id # u.jar_antes.id /\ jar.id = abertas
              /\ ~u.resultado => cookies_file = Ausente /\ session_info_file = Ausente

\* the clauses of C31 that do not depend on which session passes the final
\* probe: no probe before the handshake, the login page is requested, and a
\* forced login that fails leaves neither file
LoginForcadoLimpaETenta ==
    ultimo_login # <<>> =>
        LET u == ultimo_login[1]
        IN  Forcado(u) =>
              /\ u.sonda_ativa = "nao" /\ u.sonda_restaurada = "nao"
              /\ u.gets = 1
              /\ u.resultado => u.posts = 1 /\ u.sonda_final = "ok"
              /\ ~u.resultado => cookies_file = Ausente /\ session_info_file = Ausente

(***************************************************************************)
(* Claims about the diagnostics trail                                      *)
(***************************************************************************)
\* the trail after the step holds the trail before it, entry for entry, at
\* its beginning
SoAcrescenta ==
    /\ Len(diagnosticos') >= Len(diagnosticos)
    /\ SubSeq(diagnosticos', 1, Len(diagnosticos)) = diagnosticos

\* C32: the diagnostics trail is append-only: in every step, the start of a
\* new batch included, entries are only appended and no entry is removed or
\* modified.
C32_TrilhaSoCresce == [][SoAcrescenta]_vars

\* the same for the steps inside one batch, the call of processar_tarefa
\* apart
TrilhaSoCresceNoLote == [][pc \notin {"ocioso", "fim"} => SoAcrescenta]_vars

(***************************************************************************)
(* Claims about submission and polling                                     *)
(***************************************************************************)
\* the submission loop of processar_tarefa has a case record left to submit
SubmissorAtivo == pc = "laco" /\ i <= Len(processos)

\* aguardar_downloads has been called and has not returned
PollerAtivo == pc \in {"espera", "poll"}

\* C33: submission and polling run as two concurrent actors over the shared
\* ledger: the poller is at work while the submitter goes on, so that a number
\* queued for the download area while case records are still to be submitted
\* is being polled for already.
C33_AtoresConcorrentes ==
    (aguardar /\ SubmissorAtivo /\ processos_para_area # <<>>) => PollerAtivo

\* what the code does instead: the two phases follow one another in one
\* thread, the poller gets the whole list of queued numbers when the last
\* case record has been submitted, and the list does not change while it polls
FasesEmSequencia ==
    /\ [](PollerAtivo => ~SubmissorAtivo /\ i > Len(processos))
    /\ [][PollerAtivo \/ PollerAtivo'
          => processos_para_area' = processos_para_area]_vars

(***************************************************************************)
(* Claims about the pacing of the requests                                 *)
(***************************************************************************)
\* the waits: delay() of utils/helpers.py, a random time in a bounded range,
\* and the fixed time.sleep of the poller
Esperas == {"delay", "sleep"}

\* no two requests of e follow one another without a wait between them
SemPedidosSeguidos(e) ==
    \A k \in 1..(Len(e) - 1) : e[k] \in Esperas \/ e[k + 1] \in Esperas

\* C34: between any two consecutive requests sent during a batch (access key,
\* case page, form post, download-area listing, download-URL request, file
\* transfer) there is a wait; no two requests are sent back to back. The fixed
\* sleeps of the poller are counted as waits here.
C34_EsperaEntrePedidos == SemPedidosSeguidos(eventos)

\* from one step of the batch to the next a wait separates the requests
EsperaEntrePassos ==
    [][eventos # <<>> /\ eventos' # <<>>
       => eventos[Len(eventos)] \in Esperas \/ eventos'[1] \in Esperas]_vars

\* the requests of the submission loop other than the transfer of a direct
\* download are separated by delay()
EsperaNoEnvio ==
    \A k \in 1..(Len(eventos) - 1) :
        eventos[k + 1] \in {"abrir_processo", "solicitar"} => eventos[k] = "delay"

\* C35: the persisted timestamp belongs to the same save as the persisted
\* cookie bundle, also after a save or a clear that fails part-way: is_valid
\* is never true while cookies.pkl is absent or is not the bundle written by
\* the save that wrote the timestamp. Stated for what can be read from the
\* files: whenever is_valid is true, cookies.pkl is there and is the whole
\* bundle of a save.
C35_ValidoComCookies ==
    \A m \in Idades :
        is_valid(session_info_file, agora, m) => cookies_file.estado = "ok"

\* is_valid is true and cookies.pkl is absent
ValidoSemCookies ==
    /\ is_valid(session_info_file, agora, MaxAgeHours)
    /\ cookies_file = Ausente

\* is_valid is true and cookies.pkl is the rest of a save that failed
ValidoComCookiesTruncados ==
    /\ is_valid(session_info_file, agora, MaxAgeHours)
    /\ cookies_file = Corrompido

\* C36: a batch fetches from the pickup area only the items that cover a case
\* number queued by that same batch; an item that covers none of them (one
\* left there by another batch of the same user) is never handed to
\* baixar_arquivo. Stated for the fetch loop of the endpoint script, which
\* fetches what aguardar_downloads_prontos returned.
C36_SoBuscaOQuePediu ==
    buscados # <<>> => buscados[1].alheios = 0

\* the same for the package: every download the poller of the package keeps,
\* and the fetch loop of client.py then fetches, covers a queued case number
SoBuscaOQuePediuNoNucleo ==
    \A k \in DOMAIN downloads :
        get_numeros_processos(downloads[k]) \cap Range(processos_para_area) # {}

\* the package has met a listing with an item of another batch and has kept
\* a download of its own
NucleoViuAlheio ==
    /\ pc = "baixar"
    /\ downloads # <<>>
    /\ \E k \in DOMAIN disponiveis :
         get_numeros_processos(disponiveis[k]) = {Alheio}

\* the reply to the form post carries the direct-generation phrase and no
\* file comes out of it: no location is found in it, or the transfer fails
DiretoSemArquivo(amb) ==
    /\ amb.chave /\ amb.pagina /\ amb.viewstate /\ amb.botao
    /\ amb.post = "ok"
    /\ download_direto(amb.texto)
    /\ ~amb.url \/ ~amb.transfer

\* C37: when the reply carries the direct-generation phrase but no location
\* is found in it or the direct transfer fails, solicitar_download reports the
\* request as accepted with type area_download, and processar_tarefa queues
\* the case number for the poll of the pickup area; the request is neither
\* listed as a failure nor counted as a direct download.
C37_DiretoSemArquivoVaiParaArea ==
    [][(pc = "laco" /\ i' = i + 1 /\ DiretoSemArquivo(ultima'[1].amb))
       => /\ ultima'[1].retorno.sucesso
          /\ ultima'[1].retorno.tipo_download = "area_download"
          /\ ultima'[1].retorno.solicitado
          /\ processos_para_area' = Append(processos_para_area, ultima'[1].numero)
          /\ relatorio'.solicitacoes_sucesso = relatorio.solicitacoes_sucesso + 1
          /\ relatorio'.solicitacoes_falha = relatorio.solicitacoes_falha
          /\ relatorio'.falhas = relatorio.falhas
          /\ relatorio'.downloads_diretos = relatorio.downloads_diretos
          /\ relatorio'.arquivos = relatorio.arquivos]_vars

\* a location was found and the transfer failed; the case number is queued
C37_Witness ==
    /\ ultima # <<>>
    /\ DiretoSemArquivo(ultima[1].amb)
    /\ ultima[1].amb.url /\ ~ultima[1].amb.transfer
    /\ processos_para_area # <<>>
    /\ processos_para_area[Len(processos_para_area)] = ultima[1].numero
    /\ relatorio.falhas = <<>>
    /\ relatorio.downloads_diretos = 0

\* the phrase is there and no location is found; the case number is queued
DiretoSemLocalizacao ==
    /\ ultima # <<>>
    /\ DiretoSemArquivo(ultima[1].amb)
    /\ ~ultima[1].amb.url
    /\ processos_para_area # <<>>
    /\ processos_para_area[Len(processos_para_area)] = ultima[1].numero

\* the poll cycle just made is one whose listing failed
ListagemFalhou == listou # <<>> /\ listou[1] # "ok"

\* C38: a poll cycle of aguardar_downloads whose listing fails (the request
\* raises, the reply is not a 200, or there is no authenticated user) counts
\* as a cycle with an empty listing: nothing is raised, the loop goes on to
\* its sleep and its next cycle, and the case numbers and the pickup items
\* matched in earlier cycles stay in the result.
C38_ListagemFalhaComoVazia ==
    [][ListagemFalhou'
       => /\ disponiveis' = <<>>
          /\ encontrados' = encontrados
          /\ downloads' = downloads
          /\ pc' = "poll"
          /\ eventos'[Len(eventos')] = "sleep"]_vars

\* a download was matched in an earlier cycle, the listing of this cycle got
\* a reply that is not a 200, and the poller still holds the download
C38_Witness ==
    /\ pc = "poll"
    /\ listou = <<"http">>
    /\ ciclos > 1
    /\ encontrados # {}
    /\ downloads # <<>>

\* the same after a request that raised
FalhouPorExcecao ==
    /\ listou = <<"excecao">>
    /\ ciclos > 1
    /\ downloads # <<>>

\* the same with no authenticated user
FalhouSemUsuario ==
    /\ listou = <<"sem_usuario">>
    /\ ciclos > 1
    /\ downloads # <<>>

\* until it returns, the poller only adds to what it has matched
PollerSoAcrescenta ==
    [][pc = "poll"
       => /\ encontrados \subseteq encontrados'
          /\ Len(downloads) <= Len(downloads')
          /\ SubSeq(downloads', 1, Len(downloads)) = downloads]_vars

====
